---- MODULE Spec2Model ----
(***************************************************************************)
(* Model of the UDS index layout engine (index-layout.c): the save-slot    *)
(* ring, the save and load protocols, and what a crash and a re-open of    *)
(* the backing store leave behind.                                         *)
(*                                                                         *)
(* Integers are kept below 2^31.  Fixed-width little-endian fields are     *)
(* modelled as byte sequences, so that encoding and decoding are separate  *)
(* computations.                                                           *)
(***************************************************************************)
EXTENDS Integers, Sequences, FiniteSets, TLC

(***************************************************************************)
(* Bounds of the model.                                                    *)
(***************************************************************************)
\* The clock (ktime_to_ms(current_time_ns(CLOCK_REALTIME))) reads 1..MaxTime.
MaxTime == 3
\* The index saves the counters CountersOf(k) for k in 0..MaxCounter.
MaxCounter == 1
\* index->zone_count is in 1..MaxZones.
MaxZones == 2
\* update_uds_layout moves the header by 0..MaxOffset blocks.
MaxOffset == 2
\* layout->offset / UDS_BLOCK_SIZE is in 0..MaxFirstBlock.
MaxFirstBlock == 1
\* The sizes compute_sizes is given are of 0..MaxSizeBlocks blocks.
MaxSizeBlocks == 2

(***************************************************************************)
(* Program constants.                                                      *)
(***************************************************************************)
NumSaves == 2
RL_SOLE_INSTANCE == 65535
INDEX_STATE_BUFFER_SIZE == 512
SaveDataSize == 24
SUPER_VERSION_CURRENT == 3
SignatureV301 == -1
VersionIdV301 == 301
REGION_MAGIC == "AlbRgn01"
UDS_BLOCK_SIZE == 4096
SUPER_VERSION_MINIMUM == 3
SUPER_VERSION_MAXIMUM == 7
\* "*ALBIREO*SINGLE*FILE*LAYOUT*001*"
SINGLE_FILE_MAGIC_1 ==
  <<42, 65, 76, 66, 73, 82, 69, 79, 42, 83, 73, 78, 71, 76, 69, 42,
    70, 73, 76, 69, 42, 76, 65, 89, 79, 85, 84, 42, 48, 48, 49, 42>>
\* sizeof(struct super_block_data), and the same without the two offsets.
SuperDataSize == 120
SuperDataSizeV3 == 104

\* Geometry of the modelled store, in blocks.
VolumeBlocks == 2
VolumeIndexBlocks == 3
PageMapBlocks == 1
OpenChapterBlocks == 1
SaveBlocks == 1 + (VolumeIndexBlocks + PageMapBlocks + OpenChapterBlocks)
SubIndexStart == 2

\* Modulus of the stand-in for murmurhash3_128.
HashMod == 65521

Slots == 0 .. (NumSaves - 1)
NoSlot == -1

(***************************************************************************)
(* Binary codec (numeric.h, buffer.h).                                     *)
(***************************************************************************)
RECURSIVE EncodeLE(_, _)
EncodeLE(v, n) ==
  IF n = 0 THEN <<>> ELSE <<v % 256>> \o EncodeLE(v \div 256, n - 1)

RECURSIVE DecodeLE(_)
DecodeLE(bytes) ==
  IF bytes = <<>> THEN 0 ELSE Head(bytes) + 256 * DecodeLE(Tail(bytes))

\* put_uint32_le_into_buffer of a signed 32-bit value converted to uint32_t.
EncodeInt32LE(v) ==
  IF v >= 0
    THEN EncodeLE(v, 4)
    ELSE LET w == (v + 1073741824) + 1073741824
             b == EncodeLE(w, 4)
         IN  <<b[1], b[2], b[3], b[4] + 128>>

\* get_int32_le_from_buffer.
DecodeInt32LE(b) ==
  IF b[4] >= 128
    THEN (DecodeLE(<<b[1], b[2], b[3], b[4] - 128>>) - 1073741824) - 1073741824
    ELSE DecodeLE(b)

Zeros(n) == [i \in 1 .. n |-> 0]

\* A struct buffer: the bytes up to its end, and the read cursor (start).
Buffer(bytes, start) == [bytes |-> bytes, start |-> start]
content_length(buffer) == Len(buffer.bytes) - buffer.start
BufferContents(buffer) ==
  SubSeq(buffer.bytes, buffer.start + 1, Len(buffer.bytes))

(***************************************************************************)
(* Nonces.                                                                 *)
(***************************************************************************)
RECURSIVE Murmur(_, _)
Murmur(data, h) ==
  IF data = <<>> THEN h
  ELSE Murmur(Tail(data), (h * 33 + Head(data) + 1) % HashMod)

\* seed = start ^ (start >> 27); every start of the model is below 2^27.
hash_stuff(start, data) == Murmur(data, start)

generate_secondary_nonce(nonce, data) == hash_stuff(nonce + 1, data)

\* generate_primary_nonce hashes from 0xa1b1e0fc, here reduced modulo HashMod.
PrimaryStart == 23281
generate_primary_nonce(data) == hash_stuff(PrimaryStart, data)

RECURSIVE FillNonceData(_)
FillNonceData(buffer) ==
  IF Len(buffer) >= 32 THEN buffer
  ELSE LET len == IF 32 - Len(buffer) < Len(buffer)
                    THEN 32 - Len(buffer) ELSE Len(buffer)
       IN  FillNonceData(buffer \o SubSeq(buffer, 1, len))

\* The 32 seed bytes of the modelled store: the time of its creation (8
\* bytes) and a random number (4 bytes), repeated.
create_unique_nonce_data ==
  FillNonceData(EncodeLE(1700000000, 8) \o EncodeLE(123456789, 4))

\* define_sub_index_nonce without the second attempt.
define_without_retry(primary_nonce, start_block, index_id) ==
  generate_secondary_nonce(
    primary_nonce, EncodeLE(start_block, 8) \o EncodeLE(index_id, 2) \o Zeros(6))

\* ~primary_nonce + 1 is the two's complement negation; within the range of
\* the stand-in hash it is HashMod - primary_nonce.
define_sub_index_nonce(primary_nonce, start_block, index_id) ==
  LET buffer == EncodeLE(start_block, 8) \o EncodeLE(index_id, 2) \o Zeros(6)
      nonce  == generate_secondary_nonce(primary_nonce, buffer)
  IN  IF nonce = 0
        THEN generate_secondary_nonce((HashMod - primary_nonce) % HashMod, buffer)
        ELSE nonce

(***************************************************************************)
(* Regions and the in-memory save slot (struct index_save_layout).         *)
(***************************************************************************)
Region(start, blocks, kind, instance) ==
  [start_block |-> start, num_blocks |-> blocks, checksum |-> 0,
   kind |-> kind, instance |-> instance]

ZeroSaveData == [timestamp |-> 0, nonce |-> 0, version |-> 0]

generate_super_block_data ==
  [magic_label |-> SINGLE_FILE_MAGIC_1,
   nonce_info |-> create_unique_nonce_data,
   nonce |-> generate_primary_nonce(create_unique_nonce_data),
   version |-> SUPER_VERSION_CURRENT,
   block_size |-> UDS_BLOCK_SIZE,
   num_indexes |-> 1,
   max_saves |-> NumSaves,
   open_chapter_blocks |-> OpenChapterBlocks,
   page_map_blocks |-> PageMapBlocks,
   volume_offset |-> 0,
   start_offset |-> 0]

\* reset_index_save_layout; a NULL pointer is the empty sequence.  The flags
\* read and written of struct index_save_layout are assigned and never read by
\* the code: the records carry no field for them.
reset_index_save_layout(start, save_blocks, page_map_blocks, instance) ==
  [index_save |-> Region(start, save_blocks, "SAVE", instance),
   header |-> Region(start, 1, "HEADER", RL_SOLE_INSTANCE),
   num_zones |-> 0,
   index_page_map |->
     Region(start + 1, page_map_blocks, "INDEX_PAGE_MAP", RL_SOLE_INSTANCE),
   free_space |->
     Region(start + 1 + page_map_blocks,
            (start + save_blocks) - (start + 1 + page_map_blocks),
            "SCRATCH", RL_SOLE_INSTANCE),
   volume_index_zones |-> <<>>,
   open_chapter |-> <<>>,
   save_type |-> "NO_SAVE",
   save_data |-> ZeroSaveData,
   index_state_buffer |-> <<>>]

\* populate_index_save_layout dividing among the zones the blocks of the
\* open chapter too.
populate_without_open_chapter_room(isl, super, num_zones, save_type) ==
  LET start == isl.index_save.start_block
      next1 == start + 1 + super.page_map_blocks
      blocks_avail == isl.index_save.num_blocks - (next1 - start)
      mi_block_count == IF num_zones > 0 THEN blocks_avail \div num_zones ELSE 0
      next2 == next1 + num_zones * mi_block_count
      hasOC == save_type = "IS_SAVE" /\ isl.open_chapter # <<>>
      next3 == IF hasOC THEN next2 + super.open_chapter_blocks ELSE next2
  IN  [isl EXCEPT
        !.header = Region(start, 1, "HEADER", RL_SOLE_INSTANCE),
        !.index_page_map = Region(start + 1, super.page_map_blocks,
                                  "INDEX_PAGE_MAP", RL_SOLE_INSTANCE),
        !.volume_index_zones =
           [z \in 1 .. Len(isl.volume_index_zones) |->
              IF z <= num_zones
                THEN Region(next1 + (z - 1) * mi_block_count, mi_block_count,
                            "VOLUME_INDEX", z - 1)
                ELSE isl.volume_index_zones[z]],
        !.open_chapter =
           IF hasOC
             THEN <<Region(next2, super.open_chapter_blocks,
                           "OPEN_CHAPTER", RL_SOLE_INSTANCE)>>
             ELSE isl.open_chapter,
        !.free_space = Region(next3, isl.index_save.num_blocks - (next3 - start),
                              "SCRATCH", RL_SOLE_INSTANCE)]

\* populate_index_save_layout: isl.volume_index_zones has at least num_zones
\* elements and isl.open_chapter is allocated or NULL.
populate_index_save_layout(isl, super, num_zones, save_type) ==
  LET start == isl.index_save.start_block
      next1 == start + 1 + super.page_map_blocks
      blocks_avail == (isl.index_save.num_blocks - (next1 - start))
                        - super.open_chapter_blocks
      mi_block_count == IF num_zones > 0 THEN blocks_avail \div num_zones ELSE 0
      next2 == next1 + num_zones * mi_block_count
      hasOC == save_type = "IS_SAVE" /\ isl.open_chapter # <<>>
      next3 == IF hasOC THEN next2 + super.open_chapter_blocks ELSE next2
  IN  [isl EXCEPT
        !.header = Region(start, 1, "HEADER", RL_SOLE_INSTANCE),
        !.index_page_map = Region(start + 1, super.page_map_blocks,
                                  "INDEX_PAGE_MAP", RL_SOLE_INSTANCE),
        !.volume_index_zones =
           [z \in 1 .. Len(isl.volume_index_zones) |->
              IF z <= num_zones
                THEN Region(next1 + (z - 1) * mi_block_count, mi_block_count,
                            "VOLUME_INDEX", z - 1)
                ELSE isl.volume_index_zones[z]],
        !.open_chapter =
           IF hasOC
             THEN <<Region(next2, super.open_chapter_blocks,
                           "OPEN_CHAPTER", RL_SOLE_INSTANCE)>>
             ELSE isl.open_chapter,
        !.free_space = Region(next3, isl.index_save.num_blocks - (next3 - start),
                              "SCRATCH", RL_SOLE_INSTANCE)]

(***************************************************************************)
(* The slot header on disk: region table, save data, state buffer.         *)
(***************************************************************************)
encode_index_save_data(save_data) ==
  EncodeLE(save_data.timestamp, 8) \o EncodeLE(save_data.nonce, 8)
    \o EncodeLE(save_data.version, 4) \o Zeros(4)

decode_index_save_data(bytes) ==
  [timestamp |-> DecodeLE(SubSeq(bytes, 1, 8)),
   nonce |-> DecodeLE(SubSeq(bytes, 9, 16)),
   version |-> DecodeLE(SubSeq(bytes, 17, 20))]

make_index_save_region_table(isl) ==
  <<isl.header, isl.index_page_map>>
    \o SubSeq(isl.volume_index_zones, 1, isl.num_zones)
    \o isl.open_chapter
    \o (IF isl.free_space.num_blocks > 0 THEN <<isl.free_space>> ELSE <<>>)

region_type_for_save_type(save_type) ==
  IF save_type = "IS_SAVE" THEN "RH_TYPE_SAVE" ELSE "RH_TYPE_UNSAVED"

\* The header block that write_index_save_header writes and flushes.
write_index_save_header(isl, table) ==
  LET state == IF isl.index_state_buffer # <<>>
                 THEN BufferContents(isl.index_state_buffer[1]) ELSE <<>>
  IN  [magic |-> REGION_MAGIC,
       region_blocks |-> isl.index_save.num_blocks,
       type |-> region_type_for_save_type(isl.save_type),
       version |-> 1,
       num_regions |-> Len(table),
       payload |-> SaveDataSize + Len(state),
       regions |-> table,
       data |-> encode_index_save_data(isl.save_data) \o state]

\* read_index_save_data: the save data and the state buffer of a header with
\* saved_size bytes of payload.
read_index_save_data(data, saved_size) ==
  IF saved_size = 0
    THEN [result |-> "UDS_SUCCESS", save_data |-> ZeroSaveData, buffer |-> <<>>]
  ELSE IF saved_size < SaveDataSize
    THEN [result |-> "UDS_CORRUPT_DATA", save_data |-> ZeroSaveData, buffer |-> <<>>]
  ELSE
    LET save_data == decode_index_save_data(SubSeq(data, 1, SaveDataSize))
        rest == saved_size - SaveDataSize
    IN  IF save_data.version > 1
          THEN [result |-> "UDS_UNSUPPORTED_VERSION", save_data |-> save_data,
                buffer |-> <<>>]
        ELSE IF rest > INDEX_STATE_BUFFER_SIZE
          THEN [result |-> "UDS_CORRUPT_DATA", save_data |-> save_data,
                buffer |-> <<>>]
        ELSE [result |-> "UDS_SUCCESS", save_data |-> save_data,
              buffer |-> IF save_data.version # 0
                           THEN <<Buffer(SubSeq(data, SaveDataSize + 1,
                                                SaveDataSize + rest), 0)>>
                           ELSE <<>>]

(***************************************************************************)
(* The region iterator.                                                    *)
(***************************************************************************)
\* iter: regions (the table), next_region (index of the next one, from 1),
\* next_block, result.  expect_layout returns the new iterator, whether the
\* expectation was met, and the region to copy into the layout.
iter_error(iter) ==
  IF iter.result = "UDS_SUCCESS"
    THEN [iter EXCEPT !.result = "UDS_UNEXPECTED_RESULT"] ELSE iter

\* expect_layout without the test of the block the region starts at.
expect_layout_any_block(expect, iter, num_blocks, kind, instance) ==
  LET fail(it) == [ok |-> FALSE, iter |-> it]
  IN
  IF iter.result # "UDS_SUCCESS" THEN fail(iter)
  ELSE IF iter.next_region = Len(iter.regions) + 1
    THEN fail(IF expect THEN iter_error(iter) ELSE iter)
  ELSE
    LET r == iter.regions[iter.next_region] IN
    IF r.kind # kind THEN fail(IF expect THEN iter_error(iter) ELSE iter)
    ELSE IF r.instance # instance THEN fail(iter_error(iter))
    ELSE IF num_blocks > 0 /\ r.num_blocks # num_blocks THEN fail(iter_error(iter))
    ELSE [ok |-> TRUE,
          iter |-> [iter EXCEPT !.next_block = @ + r.num_blocks,
                                !.next_region = @ + 1]]

\* expect_layout without its first test, of the result the iterator holds.
expect_layout_unlatched(expect, iter, num_blocks, kind, instance) ==
  LET fail(it) == [ok |-> FALSE, iter |-> it]
  IN
  IF iter.next_region = Len(iter.regions) + 1
    THEN fail(IF expect THEN iter_error(iter) ELSE iter)
  ELSE
    LET r == iter.regions[iter.next_region] IN
    IF r.start_block # iter.next_block THEN fail(iter_error(iter))
    ELSE IF r.kind # kind THEN fail(IF expect THEN iter_error(iter) ELSE iter)
    ELSE IF r.instance # instance THEN fail(iter_error(iter))
    ELSE IF num_blocks > 0 /\ r.num_blocks # num_blocks THEN fail(iter_error(iter))
    ELSE [ok |-> TRUE,
          iter |-> [iter EXCEPT !.next_block = @ + r.num_blocks,
                                !.next_region = @ + 1]]

expect_layout(expect, iter, num_blocks, kind, instance) ==
  LET fail(it) == [ok |-> FALSE, iter |-> it]
  IN
  IF iter.result # "UDS_SUCCESS" THEN fail(iter)
  ELSE IF iter.next_region = Len(iter.regions) + 1
    THEN fail(IF expect THEN iter_error(iter) ELSE iter)
  ELSE
    LET r == iter.regions[iter.next_region] IN
    IF r.start_block # iter.next_block THEN fail(iter_error(iter))
    ELSE IF r.kind # kind THEN fail(IF expect THEN iter_error(iter) ELSE iter)
    ELSE IF r.instance # instance THEN fail(iter_error(iter))
    ELSE IF num_blocks > 0 /\ r.num_blocks # num_blocks THEN fail(iter_error(iter))
    ELSE [ok |-> TRUE,
          iter |-> [iter EXCEPT !.next_block = @ + r.num_blocks,
                                !.next_region = @ + 1]]

\* The region expect_layout copied: the one the iterator has just passed.
Consumed(iter) == iter.regions[iter.next_region - 1]

\* for (tmp_iter = iter; expect_layout(false, NULL, &tmp_iter, 0, VOLUME_INDEX, n); ++n);
RECURSIVE CountZones(_, _)
CountZones(tmp_iter, n) ==
  LET e == expect_layout(FALSE, tmp_iter, 0, "VOLUME_INDEX", n)
  IN  IF e.ok THEN CountZones(e.iter, n + 1) ELSE n

\* for (z = 0; z < isl->num_zones; ++z) expect_layout(true, &zones[z], ...):
\* returns the iterator and the zone descriptors (a zeroed descriptor where
\* the expectation failed).
RECURSIVE ExpectZones(_, _, _, _)
ExpectZones(iter, z, n, zones) ==
  IF z = n THEN [iter |-> iter, zones |-> zones]
  ELSE LET e == expect_layout(TRUE, iter, 0, "VOLUME_INDEX", z)
       IN  ExpectZones(e.iter, z + 1, n,
                       Append(zones, IF e.ok THEN Consumed(e.iter)
                                     ELSE Region(0, 0, "ZERO", 0)))

reconstruct_index_save(isl0, save_data, super, table) ==
  LET isl1 == [isl0 EXCEPT
                 !.num_zones = 0, !.save_data = save_data,
                 !.save_type = IF table.type = "RH_TYPE_SAVE"
                                 THEN "IS_SAVE" ELSE "NO_SAVE"]
      iter0 == [regions |-> table.regions, next_region |-> 1,
                next_block |-> isl1.index_save.start_block,
                result |-> "UDS_SUCCESS"]
      last_block == isl1.index_save.start_block + isl1.index_save.num_blocks
      \* Each step takes the slot and the iterator as the step before left
      \* them; e is what its expect_layout returned.
      SetHeader(isl, e) ==
        [isl |-> IF e.ok THEN [isl EXCEPT !.header = Consumed(e.iter)] ELSE isl,
         iter |-> e.iter]
      SetPageMap(isl, e) ==
        [isl |-> IF e.ok THEN [isl EXCEPT !.index_page_map = Consumed(e.iter)]
                 ELSE isl,
         iter |-> e.iter]
      PageMap(st) ==
        SetPageMap(st.isl, expect_layout(TRUE, st.iter, 0, "INDEX_PAGE_MAP",
                                         RL_SOLE_INSTANCE))
      SetZones(isl, n, ez) ==
        [isl |-> [isl EXCEPT !.num_zones = n, !.volume_index_zones = ez.zones],
         iter |-> ez.iter]
      ZonesCounted(st, n) == SetZones(st.isl, n, ExpectZones(st.iter, 0, n, <<>>))
      Zones(st) == ZonesCounted(st, CountZones(st.iter, 0))
      SetOpenChapter(isl, e) ==
        [isl |-> [isl EXCEPT !.open_chapter =
                               <<IF e.ok THEN Consumed(e.iter)
                                 ELSE Region(0, 0, "ZERO", 0)>>],
         iter |-> e.iter]
      OpenChapter(st) ==
        IF st.isl.save_type = "IS_SAVE"
          THEN SetOpenChapter(st.isl,
                              expect_layout(TRUE, st.iter, 0, "OPEN_CHAPTER",
                                            RL_SOLE_INSTANCE))
          ELSE st
      SetFreeSpace(isl, e) ==
        IF e.ok
          THEN [isl |-> [isl EXCEPT !.free_space = Consumed(e.iter)],
                iter |-> e.iter]
          ELSE [isl |-> [isl EXCEPT !.free_space =
                                      Region(e.iter.next_block,
                                             last_block - e.iter.next_block,
                                             "SCRATCH", RL_SOLE_INSTANCE)],
                iter |-> [e.iter EXCEPT !.next_block = last_block]]
      FreeSpace(st) ==
        SetFreeSpace(st.isl, expect_layout(FALSE, st.iter, 0, "SCRATCH",
                                           RL_SOLE_INSTANCE))
      Finish(st) ==
        IF st.iter.result # "UDS_SUCCESS"
          THEN [result |-> st.iter.result, isl |-> st.isl, iter |-> st.iter]
        ELSE IF st.iter.next_region # Len(st.iter.regions) + 1
          THEN [result |-> "UDS_UNEXPECTED_RESULT", isl |-> st.isl,
                iter |-> st.iter]
        ELSE IF st.iter.next_block # last_block
          THEN [result |-> "UDS_UNEXPECTED_RESULT", isl |-> st.isl,
                iter |-> st.iter]
        ELSE [result |-> "UDS_SUCCESS", isl |-> st.isl, iter |-> st.iter]
  IN
  IF table.num_regions = 0
       \/ (table.num_regions = 1 /\ table.regions[1].kind = "SCRATCH")
    THEN [result |-> "UDS_SUCCESS",
          isl |-> populate_index_save_layout(isl1, super, 0, "NO_SAVE"),
          iter |-> iter0]
    ELSE Finish(FreeSpace(OpenChapter(Zones(PageMap(
           SetHeader(isl1, expect_layout(TRUE, iter0, 1, "HEADER",
                                         RL_SOLE_INSTANCE)))))))

\* The heap blocks that the pointers of a slot hold (a NULL pointer is the
\* empty sequence).
SlotPointers == {"volume_index_zones", "open_chapter", "index_state_buffer"}

HeldBy(isl) ==
  {p \in SlotPointers :
     \/ p = "volume_index_zones" /\ isl.volume_index_zones # <<>>
     \/ p = "open_chapter" /\ isl.open_chapter # <<>>
     \/ p = "index_state_buffer" /\ isl.index_state_buffer # <<>>}

\* load_region_table and load_index_save on the header block of one slot.
\* live: the heap blocks allocated during the call and not freed when it
\* returns; the region table is freed on every path, and the state buffer
\* when the reconstruction fails.
load_index_save(isl, super, block) ==
  IF block.magic # REGION_MAGIC
    THEN [result |-> "UDS_NO_INDEX", isl |-> isl, live |-> {}]
  ELSE IF block.version # 1
    THEN [result |-> "UDS_UNSUPPORTED_VERSION", isl |-> isl, live |-> {}]
  ELSE IF block.region_blocks # isl.index_save.num_blocks
    THEN [result |-> "UDS_CORRUPT_DATA", isl |-> isl,
          live |-> {"table"} \ {"table"}]
  ELSE IF block.type # "RH_TYPE_SAVE" /\ block.type # "RH_TYPE_UNSAVED"
    THEN [result |-> "UDS_CORRUPT_DATA", isl |-> isl,
          live |-> {"table"} \ {"table"}]
  ELSE
    LET d == read_index_save_data(block.data, block.payload) IN
    IF d.result # "UDS_SUCCESS"
      THEN [result |-> d.result, isl |-> isl, live |-> {"table"} \ {"table"}]
    ELSE
      LET Reconstructed(r) ==
            IF r.result # "UDS_SUCCESS"
              THEN [result |-> r.result,
                    isl |-> [r.isl EXCEPT !.index_state_buffer = <<>>],
                    live |-> (HeldBy(r.isl) \cup {"table"})
                               \ {"table", "index_state_buffer"}]
              ELSE [result |-> "UDS_SUCCESS", isl |-> r.isl,
                    live |-> (HeldBy(r.isl) \cup {"table"}) \ {"table"}]
      IN  Reconstructed(
            reconstruct_index_save([isl EXCEPT !.index_state_buffer = d.buffer],
                                   d.save_data, super, block))

(***************************************************************************)
(* Save-slot manager: validation and selection.                            *)
(***************************************************************************)
generate_index_save_nonce(volume_nonce, isl) ==
  generate_secondary_nonce(volume_nonce,
    EncodeLE(isl.save_data.timestamp, 8) \o EncodeLE(0, 8)
      \o EncodeLE(isl.save_data.version, 4) \o EncodeLE(0, 4)
      \o EncodeLE(isl.index_save.start_block, 8))

\* validate_index_save_layout without the test of num_zones.
validate_without_zone_test(isl, volume_nonce) ==
  IF isl.save_type = "NO_SAVE" \/ isl.save_data.timestamp = 0
    THEN "UDS_BAD_STATE"
  ELSE IF isl.save_data.nonce # generate_index_save_nonce(volume_nonce, isl)
    THEN "UDS_BAD_STATE"
  ELSE "UDS_SUCCESS"

\* validate_index_save_layout without any of its tests.
validate_without_tests(isl, volume_nonce) == "UDS_SUCCESS"

validate_index_save_layout(isl, volume_nonce) ==
  IF isl.save_type = "NO_SAVE" \/ isl.num_zones = 0 \/ isl.save_data.timestamp = 0
    THEN "UDS_BAD_STATE"
  ELSE IF isl.save_data.nonce # generate_index_save_nonce(volume_nonce, isl)
    THEN "UDS_BAD_STATE"
  ELSE "UDS_SUCCESS"

\* The loop of select_oldest_index_save_layout with <= for <: of the slots
\* with the smallest time the last one wins.
RECURSIVE OldestLoopLastWins(_, _, _, _, _, _)
OldestLoopLastWins(slots, volume_nonce, max_saves, i, oldest, oldest_time) ==
  IF i >= max_saves THEN oldest
  ELSE LET save_time ==
             IF validate_index_save_layout(slots[i], volume_nonce) = "UDS_SUCCESS"
               THEN slots[i].save_data.timestamp ELSE 0
       IN  IF oldest = NoSlot \/ save_time <= oldest_time
             THEN OldestLoopLastWins(slots, volume_nonce, max_saves, i + 1, i,
                                     save_time)
             ELSE OldestLoopLastWins(slots, volume_nonce, max_saves, i + 1,
                                     oldest, oldest_time)

\* The loop of select_oldest_index_save_layout from slot i on.
RECURSIVE OldestLoop(_, _, _, _, _, _)
OldestLoop(slots, volume_nonce, max_saves, i, oldest, oldest_time) ==
  IF i >= max_saves THEN oldest
  ELSE LET save_time ==
             IF validate_index_save_layout(slots[i], volume_nonce) = "UDS_SUCCESS"
               THEN slots[i].save_data.timestamp ELSE 0
       IN  IF oldest = NoSlot \/ save_time < oldest_time
             THEN OldestLoop(slots, volume_nonce, max_saves, i + 1, i, save_time)
             ELSE OldestLoop(slots, volume_nonce, max_saves, i + 1, oldest, oldest_time)

\* select_oldest_index_save_layout with a loop that stops one slot early.
select_oldest_stops_early(slots, volume_nonce, max_saves) ==
  OldestLoop(slots, volume_nonce, max_saves - 1, 0, NoSlot, 0)

select_oldest_index_save_layout(slots, volume_nonce, max_saves) ==
  OldestLoop(slots, volume_nonce, max_saves, 0, NoSlot, 0)

\* The loop of select_latest_index_save_layout that does not skip the slots
\* failing validate_index_save_layout.
RECURSIVE LatestLoopNoSkip(_, _, _, _, _, _)
LatestLoopNoSkip(slots, volume_nonce, max_saves, i, latest, latest_time) ==
  IF i >= max_saves THEN latest
  ELSE IF slots[i].save_data.timestamp > latest_time
    THEN LatestLoopNoSkip(slots, volume_nonce, max_saves, i + 1, i,
                          slots[i].save_data.timestamp)
  ELSE LatestLoopNoSkip(slots, volume_nonce, max_saves, i + 1, latest,
                        latest_time)

\* The loop of select_latest_index_save_layout from slot i on.
RECURSIVE LatestLoop(_, _, _, _, _, _)
LatestLoop(slots, volume_nonce, max_saves, i, latest, latest_time) ==
  IF i >= max_saves THEN latest
  ELSE IF validate_index_save_layout(slots[i], volume_nonce) # "UDS_SUCCESS"
    THEN LatestLoop(slots, volume_nonce, max_saves, i + 1, latest, latest_time)
  ELSE IF slots[i].save_data.timestamp > latest_time
    THEN LatestLoop(slots, volume_nonce, max_saves, i + 1, i,
                    slots[i].save_data.timestamp)
  ELSE LatestLoop(slots, volume_nonce, max_saves, i + 1, latest, latest_time)

\* NoSlot stands for UDS_INDEX_NOT_SAVED_CLEANLY.
select_latest_index_save_layout(slots, volume_nonce, max_saves) ==
  LatestLoop(slots, volume_nonce, max_saves, 0, NoSlot, 0)

\* instantiate_index_save_layout; now is the clock reading in ms and alloc
\* names the allocation that fails, if any.
instantiate_index_save_layout(isl, super, volume_nonce, num_zones, now, alloc) ==
  LET isl1 == IF isl.open_chapter = <<>>
                THEN [isl EXCEPT !.open_chapter = <<Region(0, 0, "ZERO", 0)>>]
                ELSE isl
      isl2 == IF num_zones # isl1.num_zones
                THEN [isl1 EXCEPT
                        !.volume_index_zones =
                           [z \in 1 .. num_zones |-> Region(0, 0, "ZERO", 0)],
                        !.num_zones = num_zones]
                ELSE isl1
      isl3 == populate_index_save_layout(isl2, super, num_zones, "IS_SAVE")
      isl4 == [isl3 EXCEPT
                 !.index_state_buffer = <<Buffer(<<>>, 0)>>,
                 !.save_type = "IS_SAVE",
                 !.save_data = [timestamp |-> now, nonce |-> 0, version |-> 1]]
  IN  IF alloc = "open_chapter" /\ isl.open_chapter = <<>>
        THEN [result |-> "ENOMEM", isl |-> isl]
      ELSE IF alloc = "zones" /\ num_zones # isl1.num_zones
        THEN [result |-> "ENOMEM",
              isl |-> [isl1 EXCEPT !.volume_index_zones = <<>>]]
      ELSE IF alloc = "buffer"
        THEN [result |-> "ENOMEM", isl |-> isl3]
      ELSE [result |-> "UDS_SUCCESS",
            isl |-> [isl4 EXCEPT !.save_data.nonce =
                                    generate_index_save_nonce(volume_nonce, isl4)]]

mutilate_index_save_info(isl) ==
  [isl EXCEPT !.save_data = ZeroSaveData,
              !.save_type = "NO_SAVE",
              !.num_zones = 0,
              !.index_state_buffer = <<>>]

\* cancel_uds_index_save mutilating every slot of the layout.
cancel_every_index_save(slots, save_slot) ==
  [s \in DOMAIN slots |-> mutilate_index_save_info(slots[s])]

cancel_uds_index_save(slots, save_slot) ==
  [slots EXCEPT ![save_slot] = mutilate_index_save_info(@)]

(***************************************************************************)
(* The index state buffer.                                                 *)
(***************************************************************************)
\* write_index_state_data: the buffer after reset_buffer_end(buffer, 0) and
\* the puts.
write_index_state_data(index) ==
  Buffer(EncodeInt32LE(SignatureV301) \o EncodeInt32LE(VersionIdV301)
           \o EncodeLE(index.newest_virtual_chapter, 8)
           \o EncodeLE(index.oldest_virtual_chapter, 8)
           \o EncodeLE(index.last_save, 8)
           \o Zeros(4) \o Zeros(4),
         0)

\* read_index_state_data without the test of the version tag.
read_state_without_version_test(buffer, index) ==
  LET b == buffer.bytes
  IN  IF Len(b) < 40
        THEN [result |-> "UDS_BUFFER_ERROR", buffer |-> buffer, index |-> index]
        ELSE [result |-> "UDS_SUCCESS", buffer |-> [buffer EXCEPT !.start = 40],
              index |-> [index EXCEPT
                           !.newest_virtual_chapter = DecodeLE(SubSeq(b, 9, 16)),
                           !.oldest_virtual_chapter = DecodeLE(SubSeq(b, 17, 24)),
                           !.last_save = DecodeLE(SubSeq(b, 25, 32))]]

\* read_index_state_data on a buffer: rewinds it, then consumes it field by
\* field; a get or skip past the end fails with UDS_BUFFER_ERROR.
read_index_state_data(buffer, index) ==
  LET b == buffer.bytes
      at(n) == [buffer EXCEPT !.start = n]
  IN  IF Len(b) < 4 THEN [result |-> "UDS_BUFFER_ERROR", buffer |-> at(0), index |-> index]
      ELSE IF Len(b) < 8 THEN [result |-> "UDS_BUFFER_ERROR", buffer |-> at(4), index |-> index]
      ELSE IF DecodeInt32LE(SubSeq(b, 1, 4)) # -1 \/ DecodeInt32LE(SubSeq(b, 5, 8)) # 301
        THEN [result |-> "UDS_UNSUPPORTED_VERSION", buffer |-> at(8), index |-> index]
      ELSE IF Len(b) < 16 THEN [result |-> "UDS_BUFFER_ERROR", buffer |-> at(8), index |-> index]
      ELSE IF Len(b) < 24 THEN [result |-> "UDS_BUFFER_ERROR", buffer |-> at(16), index |-> index]
      ELSE IF Len(b) < 32 THEN [result |-> "UDS_BUFFER_ERROR", buffer |-> at(24), index |-> index]
      ELSE IF Len(b) < 36 THEN [result |-> "UDS_BUFFER_ERROR", buffer |-> at(32), index |-> index]
      ELSE IF Len(b) < 40 THEN [result |-> "UDS_BUFFER_ERROR", buffer |-> at(36), index |-> index]
      ELSE [result |-> "UDS_SUCCESS", buffer |-> at(40),
            index |-> [index EXCEPT
                         !.newest_virtual_chapter = DecodeLE(SubSeq(b, 9, 16)),
                         !.oldest_virtual_chapter = DecodeLE(SubSeq(b, 17, 24)),
                         !.last_save = DecodeLE(SubSeq(b, 25, 32))]]

(***************************************************************************)
(* State.                                                                  *)
(***************************************************************************)
VARIABLES
  store,      \* the backing store: start (the disk block its block 0 is),
              \*   size (its length in blocks), block (disk block -> what the
              \*   header and the configuration writes left there)
  layout,     \* struct index_layout: super (super_block_data), nonce (index.nonce)
  saves,      \* layout->index.saves: slot -> struct index_save_layout
  hdr,        \* on disk: slot -> the header block of the slot
  fresh,      \* on disk: block -> 1 if it was written in full since the header
              \*   of its slot was last written UNSAVED, 0 otherwise
  index,      \* struct uds_index: the chapter counters and zone_count
  pc,         \* where the caller is: "closed", "idle", or a step of save_index_state
  save_slot,  \* save_index_state: the slot chosen by setup_uds_index_save_slot
  zone,       \* save_volume_index: the next zone to write
  result,     \* the last value returned to the caller
  log,        \* history: the disk writes of the current save_index_state call
  preLatest,  \* history: select_latest when the current save_index_state began
  crashedAt,  \* history: where the last crash hit ("none", "before", "after"
              \*   the UNSAVED header write of an interrupted save)
  lastClock,  \* history: the last clock reading under the increasing clock
              \*   (0 when the clock is unconstrained)
  recent      \* history: timestamps of the last (up to 3) successful saves in a row

vars == <<store, layout, saves, hdr, fresh, index, pc, save_slot, zone, result,
          log, preLatest, crashedAt, lastClock, recent>>

TotalBlocks == 3 + VolumeBlocks + NumSaves * SaveBlocks
SlotStart(s) == SubIndexStart + VolumeBlocks + s * SaveBlocks
SlotBlocks(s) == SlotStart(s) .. (SlotStart(s) + SaveBlocks - 1)
\* The counters the index has reached at its k-th chapter mark: newest,
\* oldest and last_save (0xCAFE is 51966).
CountersOf(k) == <<k * 1000, k * 100, k * 51966>>
Counters(ix) ==
  <<ix.newest_virtual_chapter, ix.oldest_virtual_chapter, ix.last_save>>

\* The save slots as UDS_ALLOCATE leaves them: zeroed (IS_SAVE is 0).
ZeroSave ==
  [index_save |-> Region(0, 0, "ZERO", 0), header |-> Region(0, 0, "ZERO", 0),
   num_zones |-> 0, index_page_map |-> Region(0, 0, "ZERO", 0),
   free_space |-> Region(0, 0, "ZERO", 0), volume_index_zones |-> <<>>,
   open_chapter |-> <<>>, save_type |-> "IS_SAVE", save_data |-> ZeroSaveData,
   index_state_buffer |-> <<>>]

allocate_single_file_parts == [s \in Slots |-> ZeroSave]

\* open_layout_writer and the write itself: the blocks of region lr, shifted
\* by offset, now carry tag.
WriteRegion(disk, lr, offset, tag) ==
  [b \in DOMAIN disk |->
     IF b >= lr.start_block + offset
          /\ b < lr.start_block + offset + lr.num_blocks
       THEN tag ELSE disk[b]]

\* write_index_save_layout: io is "ok", "open_fail" (no writer, nothing is
\* written), "write_fail_lost" or "write_fail_landed" (the write or flush
\* reports an error and the block did not, or did, reach the disk).
write_index_save_layout(isl, io) ==
  IF io = "open_fail"
    THEN [result |-> "EIO", isl |-> isl, block |-> <<>>]
    ELSE [result |-> IF io = "ok" THEN "UDS_SUCCESS" ELSE "EIO",
          isl |-> isl,
          block |-> IF io \in {"ok", "write_fail_landed"}
                      THEN <<write_index_save_header(
                                isl, make_index_save_region_table(isl))>>
                      ELSE <<>>]

\* invalidate_old_save without reset_index_save_layout: the header goes out
\* with the type and the save data the slot had.
invalidate_without_reset(super, isl, io) == write_index_save_layout(isl, io)

invalidate_old_save(super, isl, io) ==
  write_index_save_layout(
    reset_index_save_layout(isl.index_save.start_block, isl.index_save.num_blocks,
                            super.page_map_blocks, isl.index_save.instance),
    io)

commit_uds_index_save(slots, slot, io) == write_index_save_layout(slots[slot], io)

find_layout_region(isl, kind, z) ==
  IF kind = "INDEX_PAGE_MAP"
    THEN [result |-> "UDS_SUCCESS", lr |-> isl.index_page_map]
  ELSE IF kind = "OPEN_CHAPTER"
    THEN IF isl.open_chapter = <<>>
           THEN [result |-> "UDS_UNEXPECTED_RESULT", lr |-> Region(0, 0, "ZERO", 0)]
           ELSE [result |-> "UDS_SUCCESS", lr |-> isl.open_chapter[1]]
  ELSE IF kind = "VOLUME_INDEX"
    THEN IF isl.volume_index_zones = <<>> \/ z >= isl.num_zones
           THEN [result |-> "UDS_UNEXPECTED_RESULT", lr |-> Region(0, 0, "ZERO", 0)]
           ELSE [result |-> "UDS_SUCCESS", lr |-> isl.volume_index_zones[z + 1]]
  ELSE [result |-> "UDS_INVALID_ARGUMENT", lr |-> Region(0, 0, "ZERO", 0)]

\* The slots as load_super_block leaves them for the created store: zeroed
\* but for the index_save descriptors copied from the top-level region table.
TableSaves ==
  [s \in Slots |->
     [ZeroSave EXCEPT !.index_save = Region(SlotStart(s), SaveBlocks, "SAVE", s)]]

\* A heap block: what it is and the slot whose pointer holds it (NoSlot for
\* the layout's own).
Allocation(what, slot) == [what |-> what, slot |-> slot]

\* load_sub_index_regions: each slot of empty from the header block its
\* reader finds (disk[s]).  The loop stops at the first slot j that fails,
\* after freeing what slots 0 .. j - 1 hold; live is what the slots hold when
\* it returns (each reader is freed as soon as its slot was loaded).
load_sub_index_regions(super, empty, disk) ==
  LET LiveOf(loaded, s) == {Allocation(p, s) : p \in loaded[s].live}
      Failing(loaded, j) ==
        [result |-> loaded[j].result,
         slots |-> allocate_single_file_parts,
         live |-> UNION {LiveOf(loaded, s) : s \in 0 .. j}
                    \ {Allocation(p, s) : p \in SlotPointers, s \in 0 .. (j - 1)}]
      Loaded(loaded) ==
        LET bad == {s \in Slots : loaded[s].result # "UDS_SUCCESS"}
        IN  IF bad = {}
              THEN [result |-> "UDS_SUCCESS",
                    slots |-> [s \in Slots |-> loaded[s].isl],
                    live |-> UNION {LiveOf(loaded, s) : s \in Slots}]
              ELSE Failing(loaded, CHOOSE s \in bad : \A t \in bad : s <= t)
  IN  Loaded([s \in Slots |-> load_index_save(empty[s], super, disk[s])])

\* The state after create_index_layout: every slot reset and written UNSAVED.
CreatedSave(s) ==
  reset_index_save_layout(SlotStart(s), SaveBlocks, PageMapBlocks, s)

(***************************************************************************)
(* The top-level layout: sizes, super block, region table.                 *)
(***************************************************************************)
block_count(bytes, block_size) ==
  IF bytes % block_size > 0
    THEN bytes \div block_size + 1 ELSE bytes \div block_size

\* struct save_layout_sizes after memset.
ZeroSizes ==
  [num_saves |-> 0, block_size |-> 0, volume_blocks |-> 0,
   volume_index_blocks |-> 0, page_map_blocks |-> 0,
   open_chapter_blocks |-> 0, save_blocks |-> 0, sub_index_blocks |-> 0,
   total_blocks |-> 0, total_size |-> 0]

\* A configuration: the geometry's bytes_per_page and bytes_per_volume, what
\* compute_volume_index_save_blocks, compute_index_page_map_save_size and
\* compute_saved_open_chapter_size return for it, and the offset and size of
\* the index within the store (bytes).
Configuration(bytes_per_page, bytes_per_volume, vi_result, vi_blocks, page_map_save_size, open_chapter_size, offset, size) ==
  [bytes_per_page |-> bytes_per_page, bytes_per_volume |-> bytes_per_volume,
   volume_index_save |-> [result |-> vi_result, blocks |-> vi_blocks],
   page_map_save_size |-> page_map_save_size,
   open_chapter_size |-> open_chapter_size,
   offset |-> offset, size |-> size]

\* sls->save_blocks without the block of the slot's header.
save_blocks_without_header(vi, pm, oc) == vi + pm + oc

\* sls->save_blocks of compute_sizes.
save_blocks_of(vi, pm, oc) == 1 + (vi + pm + oc)

\* compute_sizes; sls is the caller's struct, which the alignment failure
\* leaves unwritten (shown zeroed: no caller reads it then).
compute_sizes(config) ==
  IF config.bytes_per_page % UDS_BLOCK_SIZE # 0
    THEN [result |-> "UDS_INCORRECT_ALIGNMENT", sls |-> ZeroSizes]
  ELSE
    LET sls1 == [ZeroSizes EXCEPT
                   !.num_saves = 2,
                   !.block_size = UDS_BLOCK_SIZE,
                   !.volume_blocks = config.bytes_per_volume \div UDS_BLOCK_SIZE]
    IN  IF config.volume_index_save.result # "UDS_SUCCESS"
          THEN [result |-> config.volume_index_save.result, sls |-> sls1]
        ELSE
          LET vi == config.volume_index_save.blocks
              pm == block_count(config.page_map_save_size, UDS_BLOCK_SIZE)
              oc == block_count(config.open_chapter_size, UDS_BLOCK_SIZE)
              save_blocks == save_blocks_of(vi, pm, oc)
              sub_index_blocks == sls1.volume_blocks + (sls1.num_saves * save_blocks)
          IN  [result |-> "UDS_SUCCESS",
               sls |-> [sls1 EXCEPT
                          !.volume_index_blocks = vi,
                          !.page_map_blocks = pm,
                          !.open_chapter_blocks = oc,
                          !.save_blocks = save_blocks,
                          !.sub_index_blocks = sub_index_blocks,
                          !.total_blocks = 3 + sub_index_blocks,
                          !.total_size = (3 + sub_index_blocks) * UDS_BLOCK_SIZE]]

\* The configuration of the modelled store.
ModelConfig ==
  Configuration(UDS_BLOCK_SIZE, VolumeBlocks * UDS_BLOCK_SIZE, "UDS_SUCCESS",
                VolumeIndexBlocks, 100, 4000, 0, 0)

ZeroRegion == Region(0, 0, "ZERO", 0)

ZeroSuper ==
  [magic_label |-> Zeros(32), nonce_info |-> Zeros(32), nonce |-> 0,
   version |-> 0, block_size |-> 0, num_indexes |-> 0, max_saves |-> 0,
   open_chapter_blocks |-> 0, page_map_blocks |-> 0, volume_offset |-> 0,
   start_offset |-> 0]

\* struct index_layout as UDS_ALLOCATE leaves it; nonce, sub_index and volume
\* are the fields of layout->index, whose saves are the variable saves.
ZeroLayout ==
  [factory_size |-> 0, offset |-> 0, super |-> ZeroSuper,
   header |-> ZeroRegion, config |-> ZeroRegion, seal |-> ZeroRegion,
   sub_index |-> ZeroRegion, volume |-> ZeroRegion, nonce |-> 0,
   total_blocks |-> 0]

is_converted_super_block(super) == super.version = 7

encode_super_block_data(super) ==
  super.magic_label \o super.nonce_info \o EncodeLE(super.nonce, 8)
    \o EncodeLE(super.version, 4) \o EncodeLE(super.block_size, 4)
    \o EncodeLE(super.num_indexes, 2) \o EncodeLE(super.max_saves, 2)
    \o Zeros(4)
    \o EncodeLE(super.open_chapter_blocks, 8)
    \o EncodeLE(super.page_map_blocks, 8)
    \o (IF is_converted_super_block(super)
          THEN EncodeLE(super.volume_offset, 8) \o EncodeLE(super.start_offset, 8)
          ELSE <<>>)

\* decode_super_block_data on a buffer holding bytes: a get past the end of
\* the buffer fails with UDS_BUFFER_ERROR.
decode_super_block_data(bytes) ==
  IF Len(bytes) < SuperDataSizeV3
    THEN [result |-> "UDS_BUFFER_ERROR", super |-> ZeroSuper]
  ELSE
    LET version == DecodeLE(SubSeq(bytes, 73, 76))
        super == [magic_label |-> SubSeq(bytes, 1, 32),
                  nonce_info |-> SubSeq(bytes, 33, 64),
                  nonce |-> DecodeLE(SubSeq(bytes, 65, 72)),
                  version |-> version,
                  block_size |-> DecodeLE(SubSeq(bytes, 77, 80)),
                  num_indexes |-> DecodeLE(SubSeq(bytes, 81, 82)),
                  max_saves |-> DecodeLE(SubSeq(bytes, 83, 84)),
                  open_chapter_blocks |-> DecodeLE(SubSeq(bytes, 89, 96)),
                  page_map_blocks |-> DecodeLE(SubSeq(bytes, 97, 104)),
                  volume_offset |-> 0,
                  start_offset |-> 0]
    IN  IF version = 7
          THEN IF Len(bytes) < SuperDataSize
                 THEN [result |-> "UDS_BUFFER_ERROR", super |-> super]
               ELSE IF Len(bytes) # SuperDataSize
                 THEN [result |-> "UDS_CORRUPT_DATA", super |-> super]
               ELSE [result |-> "UDS_SUCCESS",
                     super |-> [super EXCEPT
                       !.volume_offset = DecodeLE(SubSeq(bytes, 105, 112)),
                       !.start_offset = DecodeLE(SubSeq(bytes, 113, 120))]]
        ELSE IF Len(bytes) # SuperDataSizeV3
          THEN [result |-> "UDS_CORRUPT_DATA", super |-> super]
        ELSE [result |-> "UDS_SUCCESS", super |-> super]

\* The version test accepting every version from the minimum to the maximum.
supported_version_range(version) ==
  ~ (version < SUPER_VERSION_MINIMUM \/ version > SUPER_VERSION_MAXIMUM)

\* The version test of read_super_block_data.
supported_version(version) ==
  ~ (version < SUPER_VERSION_MINIMUM \/ version = 4 \/ version = 5
       \/ version = 6 \/ version > SUPER_VERSION_MAXIMUM)

\* read_super_block_data without its tests: the super block as decoded.
read_super_block_unchecked(data, saved_size) ==
  decode_super_block_data(SubSeq(data \o Zeros(saved_size), 1, saved_size))

\* read_super_block_data: data is what follows the region table in the
\* header block, saved_size the payload length its header declares; what lies
\* past the end of data reads as zeros.
read_super_block_data(data, saved_size) ==
  LET Checked(d) ==
        IF d.result # "UDS_SUCCESS" THEN d
        ELSE IF d.super.magic_label # SINGLE_FILE_MAGIC_1
          THEN [result |-> "UDS_CORRUPT_DATA", super |-> d.super]
        ELSE IF ~ supported_version(d.super.version)
          THEN [result |-> "UDS_UNSUPPORTED_VERSION", super |-> d.super]
        ELSE IF d.super.volume_offset < d.super.start_offset
          THEN [result |-> "UDS_CORRUPT_DATA", super |-> d.super]
        ELSE IF d.super.num_indexes # 1
          THEN [result |-> "UDS_CORRUPT_DATA", super |-> d.super]
        ELSE IF generate_primary_nonce(d.super.nonce_info) # d.super.nonce
          THEN [result |-> "UDS_CORRUPT_DATA", super |-> d.super]
        ELSE d
  IN  Checked(decode_super_block_data(
                SubSeq(data \o Zeros(saved_size), 1, saved_size)))

(***************************************************************************)
(* The backing store.  Block n of the store is disk block store.start + n. *)
(***************************************************************************)
\* A block the engine has not written: it holds no region table magic.
NoBlock == [what |-> "none", magic |-> "", version |-> 0]

DiskBlock(st, n) == st.start + n

\* The block a reader opened at block n of the store sees first.
ReadBlock(st, n) ==
  IF DiskBlock(st, n) \in DOMAIN st.block /\ n >= 0 /\ n < st.size \div UDS_BLOCK_SIZE
    THEN st.block[DiskBlock(st, n)] ELSE NoBlock

\* The store after block n was written with content.
WriteBlock(st, n, content) ==
  [st EXCEPT !.block =
     [b \in DOMAIN st.block |-> IF b = DiskBlock(st, n) THEN content ELSE st.block[b]]]

\* The header block of the save slot a reader opened at block n of the store
\* sees: slot header blocks are kept apart from the store's other blocks, in
\* disk, by slot.
ReadSlotBlock(st, disk, n) ==
  IF \E s \in Slots : SlotStart(s) = DiskBlock(st, n)
    THEN disk[CHOOSE s \in Slots : SlotStart(s) = DiskBlock(st, n)]
    ELSE NoBlock

(***************************************************************************)
(* The top-level region table and the super block.                         *)
(***************************************************************************)
make_single_file_region_table(ly, slots) ==
  <<ly.header, ly.config, ly.sub_index, ly.volume>>
    \o [j \in 1 .. ly.super.max_saves |-> slots[j - 1].index_save]
    \o <<ly.seal>>

\* The header block that write_single_file_header writes and flushes.
write_single_file_header(ly, table) ==
  [what |-> "header",
   magic |-> REGION_MAGIC,
   region_blocks |-> ly.total_blocks,
   type |-> "RH_TYPE_SUPER",
   version |-> 1,
   num_regions |-> Len(table),
   payload |-> IF is_converted_super_block(ly.super)
                 THEN SuperDataSize ELSE SuperDataSizeV3,
   regions |-> table,
   data |-> encode_super_block_data(ly.super)]

\* save_single_file_layout: io is "ok" or "fail" (the write reports an error
\* and the block did not reach the store).
save_single_file_layout(ly, slots, offset, st, io) ==
  IF io = "ok"
    THEN [result |-> "UDS_SUCCESS",
          store |-> WriteBlock(st, ly.header.start_block + offset,
                      write_single_file_header(
                        ly, make_single_file_region_table(ly, slots)))]
    ELSE [result |-> "EIO", store |-> st]

\* write_uds_index_config: write_config_contents leaves the configuration and
\* the super block version in the block.
write_uds_index_config(ly, config, offset, st, io) ==
  IF io = "ok"
    THEN [result |-> "UDS_SUCCESS",
          store |-> WriteBlock(st, ly.config.start_block + offset,
                      [what |-> "config", magic |-> "", version |-> ly.super.version,
                       config |-> [config EXCEPT !.offset = 0, !.size = 0]])]
    ELSE [result |-> "EIO", store |-> st]

\* load_region_table on the block a reader sees.
load_region_table(block) ==
  IF block.magic # REGION_MAGIC
    THEN [result |-> "UDS_NO_INDEX", table |-> NoBlock]
  ELSE IF block.version # 1
    THEN [result |-> "UDS_UNSUPPORTED_VERSION", table |-> NoBlock]
  ELSE [result |-> "UDS_SUCCESS", table |-> block]

\* for (i = 0; i < max_saves; ++i) expect_layout(true, &isl->index_save, ...)
RECURSIVE ExpectSaves(_, _, _, _)
ExpectSaves(iter, i, n, slots) ==
  IF i = n THEN [iter |-> iter, slots |-> slots]
  ELSE LET e == expect_layout(TRUE, iter, 0, "SAVE", i)
       IN  ExpectSaves(e.iter, i + 1, n,
                       IF e.ok
                         THEN [slots EXCEPT ![i].index_save = Consumed(e.iter)]
                         ELSE slots)

\* expect_sub_index: st is the layout (ly), its slots and the iterator.
expect_sub_index(st, instance) ==
  IF st.iter.result # "UDS_SUCCESS" THEN st
  ELSE
    LET start_block == st.iter.next_block
        Copied(e, old) == IF e.ok THEN Consumed(e.iter) ELSE old
        Nonce(s) ==
          [s EXCEPT !.ly.nonce =
             define_sub_index_nonce(s.ly.super.nonce,
                                    s.ly.sub_index.start_block, instance)]
        Spans(s, end_block) ==
          Nonce(IF s.iter.next_block # end_block
                  THEN [s EXCEPT !.iter = iter_error(s.iter)] ELSE s)
        Saved(s, end_block, r) ==
          Spans([s EXCEPT !.iter = r.iter, !.slots = r.slots], end_block)
        Saves(s, end_block) ==
          Saved(s, end_block,
                ExpectSaves(s.iter, 0, s.ly.super.max_saves, s.slots))
        VolumeDone(s, end_block, e) ==
          Saves([s EXCEPT
                   !.ly.volume = Copied(e, s.ly.volume),
                   !.iter = [e.iter EXCEPT
                               !.next_block = @ + s.ly.super.volume_offset]],
                end_block + s.ly.super.volume_offset)
        Volume(s, end_block) ==
          VolumeDone(s, end_block,
                     expect_layout(TRUE, s.iter, 0, "VOLUME", RL_SOLE_INSTANCE))
        IndexDone(s, e) ==
          Volume([s EXCEPT !.ly.sub_index = Copied(e, s.ly.sub_index),
                           !.iter = [e.iter EXCEPT !.next_block = start_block]],
                 e.iter.next_block)
    IN  IndexDone(st, expect_layout(TRUE, st.iter, 0, "INDEX", instance))

\* reconstitute_single_file_layout: returns the result, the layout and the
\* slots with their index_save descriptors.
reconstitute_single_file_layout(ly0, slots0, table, first_block) ==
  LET Copied(e, old) == IF e.ok THEN Consumed(e.iter) ELSE old
      Finish(s) ==
        IF s.iter.result # "UDS_SUCCESS"
          THEN [result |-> s.iter.result, layout |-> s.ly, slots |-> s.slots]
        ELSE IF s.iter.next_block - s.ly.super.volume_offset
                  # first_block + s.ly.total_blocks
          THEN [result |-> "UDS_UNEXPECTED_RESULT", layout |-> s.ly,
                slots |-> s.slots]
        ELSE [result |-> "UDS_SUCCESS", layout |-> s.ly, slots |-> s.slots]
      SealDone(s, e) ==
        Finish([s EXCEPT !.ly.seal = Copied(e, s.ly.seal), !.iter = e.iter])
      Seal(s) ==
        SealDone(s, expect_layout(TRUE, s.iter, 1, "SEAL", RL_SOLE_INSTANCE))
      ConfigDone(s, e) ==
        Seal(expect_sub_index(
               [s EXCEPT !.ly.config = Copied(e, s.ly.config), !.iter = e.iter],
               0))
      Config(s) ==
        ConfigDone(s, expect_layout(TRUE, s.iter, 1, "CONFIG", RL_SOLE_INSTANCE))
      HeaderDone(s, e) ==
        Config([s EXCEPT !.ly.header = Copied(e, s.ly.header), !.iter = e.iter])
  IN  HeaderDone(
        [ly |-> [ly0 EXCEPT !.total_blocks = table.region_blocks],
         slots |-> slots0,
         iter |-> [regions |-> table.regions, next_region |-> 1,
                   next_block |-> first_block, result |-> "UDS_SUCCESS"]],
        expect_layout(TRUE,
                      [regions |-> table.regions, next_region |-> 1,
                       next_block |-> first_block, result |-> "UDS_SUCCESS"],
                      1, "HEADER", RL_SOLE_INSTANCE))

\* load_super_block on the block a reader at first_block sees.
load_super_block(ly, block_size, first_block, block) ==
  LET Failed(res) ==
        [result |-> res, layout |-> ly, slots |-> allocate_single_file_parts]
      Read(t, d) ==
        IF d.result # "UDS_SUCCESS" THEN Failed(d.result)
        ELSE IF d.super.block_size # block_size THEN Failed("UDS_CORRUPT_DATA")
        ELSE reconstitute_single_file_layout(
               [ly EXCEPT !.super = d.super], allocate_single_file_parts, t,
               first_block - (d.super.volume_offset - d.super.start_offset))
      Table(t) ==
        IF t.result # "UDS_SUCCESS" THEN Failed(t.result)
        ELSE IF t.table.type # "RH_TYPE_SUPER" THEN Failed("UDS_CORRUPT_DATA")
        ELSE Read(t.table, read_super_block_data(t.table.data, t.table.payload))
  IN  Table(load_region_table(block))

(***************************************************************************)
(* Creating and opening a layout.                                          *)
(***************************************************************************)
\* The store after the header block of a save slot was written at block n:
\* a write that lands on no slot's first block leaves disk as it was.
WriteSlotBlock(st, disk, n, content) ==
  [s \in Slots |->
     IF SlotStart(s) = DiskBlock(st, n) /\ content # <<>>
       THEN content[1] ELSE disk[s]]

\* setup_sub_index: next_block is where the sub-index starts.
setup_sub_index(ly, next_block, sls, instance) ==
  LET slots == [i \in Slots |->
                  reset_index_save_layout(
                    next_block + sls.volume_blocks + i * sls.save_blocks,
                    sls.save_blocks, sls.page_map_blocks, i)]
      end_saves == next_block + sls.volume_blocks
                     + sls.num_saves * sls.save_blocks
  IN  IF next_block + sls.sub_index_blocks # end_saves
        THEN [result |-> "UDS_UNEXPECTED_RESULT", layout |-> ly,
              slots |-> slots, next_block |-> end_saves]
        ELSE [result |-> "UDS_SUCCESS",
              layout |-> [ly EXCEPT
                 !.sub_index = Region(next_block, sls.sub_index_blocks,
                                      "INDEX", instance),
                 !.volume = Region(next_block, sls.volume_blocks,
                                   "VOLUME", RL_SOLE_INSTANCE),
                 !.nonce = define_sub_index_nonce(ly.super.nonce, next_block,
                                                  instance)],
              slots |-> slots, next_block |-> end_saves]

init_single_file_layout(ly, sls) ==
  LET first == ly.offset \div sls.block_size
      ly1 == [ly EXCEPT
                !.total_blocks = sls.total_blocks,
                !.super = [generate_super_block_data EXCEPT
                             !.block_size = sls.block_size,
                             !.max_saves = sls.num_saves,
                             !.open_chapter_blocks = sls.open_chapter_blocks,
                             !.page_map_blocks = sls.page_map_blocks],
                !.header = Region(first, 1, "HEADER", RL_SOLE_INSTANCE),
                !.config = Region(first + 1, 1, "CONFIG", RL_SOLE_INSTANCE)]
      Sealed(r) ==
        IF r.result # "UDS_SUCCESS"
          THEN [result |-> r.result, layout |-> r.layout, slots |-> r.slots]
        ELSE IF (r.next_block + 1) * sls.block_size > ly.offset + sls.total_size
          THEN [result |-> "UDS_UNEXPECTED_RESULT", layout |-> r.layout,
                slots |-> r.slots]
        ELSE [result |-> "UDS_SUCCESS",
              layout |-> [r.layout EXCEPT
                            !.seal = Region(r.next_block, 1, "SEAL",
                                            RL_SOLE_INSTANCE)],
              slots |-> r.slots]
  IN  Sealed(setup_sub_index(ly1, first + 2, sls, 0))

\* save_sub_index_regions from slot i on: io is "ok" or "fail" (the write of
\* the first slot's header reports an error and the block did not reach the
\* store).
RECURSIVE save_sub_index_regions(_, _, _, _, _, _)
save_sub_index_regions(ly, slots, st, disk, io, i) ==
  IF i = ly.super.max_saves THEN [result |-> "UDS_SUCCESS", disk |-> disk]
  ELSE IF io # "ok" THEN [result |-> "EIO", disk |-> disk]
  ELSE save_sub_index_regions(
         ly, slots, st,
         WriteSlotBlock(st, disk,
                        slots[i].index_save.start_block - ly.super.start_offset,
                        write_index_save_layout(slots[i], "ok").block),
         io, i + 1)

\* create_index_layout: io is "ok", or the step whose write fails:
\* "slot_fail", "header_fail", "config_fail".
create_index_layout(ly, config, st, disk, io) ==
  LET Failed(res, i, st1, disk1) ==
        [result |-> res, layout |-> i.layout, slots |-> i.slots,
         store |-> st1, disk |-> disk1]
      Config(i, d, h, c) ==
        Failed(c.result, i, c.store, d.disk)
      Header(i, d, h) ==
        IF h.result # "UDS_SUCCESS" THEN Failed(h.result, i, st, d.disk)
        ELSE Config(i, d, h,
                    write_uds_index_config(
                      i.layout, config, 0, h.store,
                      IF io = "config_fail" THEN "fail" ELSE "ok"))
      Saved(i, d) ==
        IF d.result # "UDS_SUCCESS" THEN Failed(d.result, i, st, disk)
        ELSE Header(i, d,
                    save_single_file_layout(
                      i.layout, i.slots, 0, st,
                      IF io = "header_fail" THEN "fail" ELSE "ok"))
      Inited(i) ==
        IF i.result # "UDS_SUCCESS" THEN Failed(i.result, i, st, disk)
        ELSE Saved(i, save_sub_index_regions(
                         i.layout, i.slots, st, disk,
                         IF io = "slot_fail" THEN "fail" ELSE "ok", 0))
      Sized(sizes) ==
        IF sizes.result # "UDS_SUCCESS"
          THEN [result |-> sizes.result, layout |-> ly,
                slots |-> allocate_single_file_parts, store |-> st,
                disk |-> disk]
          ELSE Inited(init_single_file_layout(ly, sizes.sls))
  IN  Sized(compute_sizes(config))

\* validate_config_contents on the block a reader sees: the configuration
\* written there is the one supplied.
validate_config_contents(block, config) ==
  IF block.what = "config"
       /\ block.config = [config EXCEPT !.offset = 0, !.size = 0]
    THEN "UDS_SUCCESS" ELSE "CONFIG_ERROR"

verify_uds_index_config(ly, config, st) ==
  validate_config_contents(
    ReadBlock(st, ly.config.start_block
                    + (ly.super.volume_offset - ly.super.start_offset)),
    config)

\* live: the heap blocks that load_index_layout allocated and has not freed
\* when it returns.  layout->index.saves is freed, and the pointer cleared,
\* when the super block or a slot fails to load.
load_index_layout(ly, config, st, disk) ==
  LET Failed(res, live) ==
        [result |-> res, layout |-> ly, slots |-> allocate_single_file_parts,
         store |-> st, disk |-> disk,
         live |-> live \ {Allocation("saves", NoSlot)}]
      Regions(sb, r) ==
        IF r.result # "UDS_SUCCESS"
          THEN Failed(r.result, r.live \cup {Allocation("saves", NoSlot)})
        ELSE [result |-> verify_uds_index_config(sb.layout, config, st),
              layout |-> sb.layout, slots |-> r.slots, store |-> st,
              disk |-> disk,
              live |-> r.live \cup {Allocation("saves", NoSlot)}]
      Super(sb) ==
        IF sb.result # "UDS_SUCCESS"
          THEN Failed(sb.result, {Allocation("saves", NoSlot)})
        ELSE Regions(sb,
               load_sub_index_regions(
                 sb.layout.super, sb.slots,
                 [s \in Slots |->
                    ReadSlotBlock(st, disk,
                                  sb.slots[s].index_save.start_block
                                    - sb.layout.super.start_offset)]))
  IN  Super(load_super_block(ly, UDS_BLOCK_SIZE, ly.offset \div UDS_BLOCK_SIZE,
                             ReadBlock(st, ly.offset \div UDS_BLOCK_SIZE)))

\* create_layout_factory: the writable size is the store's size rounded down
\* to a multiple of the block size.
create_layout_factory(ly, config, st) ==
  LET writable_size == (st.size \div UDS_BLOCK_SIZE) * UDS_BLOCK_SIZE
  IN  IF writable_size < config.size + config.offset
        THEN [result |-> "-ENOSPC", layout |-> ly]
        ELSE [result |-> "UDS_SUCCESS",
              layout |-> [ly EXCEPT
                 !.factory_size = IF config.size > 0 THEN config.size
                                  ELSE writable_size,
                 !.offset = config.offset]]

\* free_uds_index_layout on a layout whose heap blocks are live: what the
\* slots hold is freed only when layout->index.saves is not NULL.
free_uds_index_layout(live) ==
  IF Allocation("saves", NoSlot) \in live
    THEN live \ ({Allocation(p, s) : p \in SlotPointers, s \in Slots}
                   \cup {Allocation("saves", NoSlot),
                         Allocation("factory", NoSlot),
                         Allocation("layout", NoSlot)})
    ELSE live \ {Allocation("factory", NoSlot), Allocation("layout", NoSlot)}

\* make_uds_index_layout: a failure frees the layout; what create wrote
\* before it failed stays in the store.  live: the heap blocks allocated
\* during the call that are not freed when it returns.
make_uds_index_layout(config, new_layout, st, disk, io) ==
  LET Failed(res, st1, disk1, live) ==
        [result |-> res, layout |-> ZeroLayout,
         slots |-> allocate_single_file_parts, store |-> st1, disk |-> disk1,
         live |-> free_uds_index_layout(live)]
      Made(r, live) ==
        IF r.result # "UDS_SUCCESS" THEN Failed(r.result, r.store, r.disk, live)
        ELSE [result |-> r.result, layout |-> r.layout, slots |-> r.slots,
              store |-> r.store, disk |-> r.disk, live |-> live]
      Loaded(r) ==
        Made(r, r.live \cup {Allocation("layout", NoSlot),
                             Allocation("factory", NoSlot)})
      Factory(sizes, f) ==
        IF f.result # "UDS_SUCCESS"
          THEN Failed(f.result, st, disk, {Allocation("layout", NoSlot)})
        ELSE IF f.layout.factory_size < sizes.sls.total_size
          THEN Failed("-ENOSPC", st, disk,
                      {Allocation("layout", NoSlot),
                       Allocation("factory", NoSlot)})
        ELSE IF new_layout
          THEN Made(create_index_layout(f.layout, config, st, disk, io),
                    {Allocation("layout", NoSlot),
                     Allocation("factory", NoSlot),
                     Allocation("saves", NoSlot)})
          ELSE Loaded(load_index_layout(f.layout, config, st, disk))
      Sized(sizes) ==
        IF sizes.result # "UDS_SUCCESS" THEN Failed(sizes.result, st, disk, {})
        ELSE Factory(sizes, create_layout_factory(ZeroLayout, config, st))
  IN  Sized(compute_sizes(config))

\* get_uds_volume_nonce
get_uds_volume_nonce(ly) == ly.nonce

\* update_uds_layout (TEST_INTERNAL): the header and the configuration go out
\* offset / UDS_BLOCK_SIZE blocks further on, as version 7; layout->index and
\* layout->super are then put back.
update_uds_layout(ly, slots, config, lvm_offset, offset, st, io) ==
  LET offset_blocks == offset \div UDS_BLOCK_SIZE
      lvm_blocks == lvm_offset \div UDS_BLOCK_SIZE
      ly1 == [ly EXCEPT
                !.super.start_offset = lvm_blocks,
                !.super.volume_offset = offset_blocks,
                !.sub_index.num_blocks = @ - offset_blocks,
                !.volume.num_blocks = @ - offset_blocks,
                !.total_blocks = @ - offset_blocks,
                !.super.version = 7]
      Restored(r) ==
        [result |-> r.result,
         layout |-> [ly EXCEPT !.total_blocks = @ - offset_blocks],
         store |-> r.store]
      Header(h) ==
        IF h.result # "UDS_SUCCESS" THEN Restored(h)
        ELSE Restored(write_uds_index_config(
                        ly1, config, offset_blocks, h.store,
                        IF io = "config_fail" THEN "fail" ELSE "ok"))
  IN  Header(save_single_file_layout(
               ly1, slots, offset_blocks, st,
               IF io = "header_fail" THEN "fail" ELSE "ok"))

\* A store of size bytes that nothing was written to.
EmptyStore(size) ==
  [start |-> 0, size |-> size,
   block |-> [b \in 0 .. (TotalBlocks - 1) |-> NoBlock]]

\* What make_uds_index_layout(config, true) returns on an empty store of
\* exactly the computed size.
Created ==
  make_uds_index_layout(ModelConfig, TRUE,
                        EmptyStore(compute_sizes(ModelConfig).sls.total_size),
                        [s \in Slots |-> NoBlock], "ok")

Init ==
  /\ \E cr \in {Created} :
       /\ store = cr.store
       /\ layout = cr.layout
  /\ saves = [s \in Slots |-> CreatedSave(s)]
  /\ hdr = [s \in Slots |->
              write_index_save_header(CreatedSave(s),
                                      make_index_save_region_table(CreatedSave(s)))]
  /\ fresh = [b \in 0 .. (TotalBlocks - 1) |-> 0]
  /\ index \in [newest_virtual_chapter : {0}, oldest_virtual_chapter : {0},
                last_save : {0}, zone_count : 1 .. MaxZones]
  /\ pc = "idle"
  /\ save_slot = NoSlot
  /\ zone = 0
  /\ result = "UDS_SUCCESS"
  /\ log = <<>>
  /\ preLatest = NoSlot
  /\ crashedAt = "none"
  /\ lastClock = 0
  /\ recent = <<>>

(***************************************************************************)
(* save_index_state, step by step.                                         *)
(***************************************************************************)
\* save_index_state goes on to its next step.
Continue(next) ==
  /\ pc' = next
  /\ UNCHANGED <<result, save_slot, preLatest, recent>>

\* save_index_state returns err to its caller.
Fail(err) ==
  /\ pc' = "idle"
  /\ result' = err
  /\ save_slot' = NoSlot
  /\ preLatest' = NoSlot
  /\ recent' = <<>>

\* setup_uds_index_save_slot, first part: select_oldest_index_save_layout.
\* The counters are those the index has reached when it saves.
SaveSelect(k) ==
  /\ pc = "idle"
  /\ index' = [index EXCEPT !.newest_virtual_chapter = CountersOf(k)[1],
                            !.oldest_virtual_chapter = CountersOf(k)[2],
                            !.last_save = CountersOf(k)[3]]
  /\ save_slot' = select_oldest_index_save_layout(saves, layout.nonce,
                                                  layout.super.max_saves)
  /\ preLatest' = select_latest_index_save_layout(saves, layout.nonce,
                                                  layout.super.max_saves)
  /\ pc' = "invalidate"
  /\ log' = <<>>
  /\ result' = "pending"
  /\ UNCHANGED <<store, layout, saves, hdr, fresh, zone, crashedAt, lastClock, recent>>

\* The write of the header block of the chosen slot: the block reaches the
\* disk, or not.  The log is kept while the call goes on.
HeaderWritten(w) ==
  /\ IF w.block # <<>>
       THEN /\ hdr' = [hdr EXCEPT ![save_slot] = w.block[1]]
            /\ fresh' = IF w.block[1].type = "RH_TYPE_UNSAVED"
                          THEN [b \in DOMAIN fresh |->
                                  IF b \in SlotBlocks(save_slot) THEN 0 ELSE fresh[b]]
                          ELSE fresh
       ELSE UNCHANGED <<hdr, fresh>>
  /\ log' = IF w.result = "UDS_SUCCESS"
              THEN Append(log, [kind |-> "HEADER", instance |-> RL_SOLE_INSTANCE,
                                type |-> w.block[1].type,
                                block |-> w.isl.header.start_block
                                            - layout.super.start_offset])
              ELSE <<>>

\* setup_uds_index_save_slot, second part: invalidate_old_save.
SaveInvalidate(io) ==
  /\ pc = "invalidate"
  /\ LET w == invalidate_old_save(layout.super, saves[save_slot], io)
     IN  /\ saves' = [saves EXCEPT ![save_slot] = w.isl]
         /\ HeaderWritten(w)
         /\ IF w.result = "UDS_SUCCESS" THEN Continue("instantiate")
                                        ELSE Fail(w.result)
  /\ UNCHANGED <<store, layout, index, zone, crashedAt, lastClock>>

\* setup_uds_index_save_slot, third part: instantiate_index_save_layout; then
\* write_index_state_data, which cannot fail on the fresh 512-byte buffer.
InstantiateStep(now, alloc) ==
  /\ pc = "instantiate"
  /\ LET r == instantiate_index_save_layout(saves[save_slot], layout.super,
                                            layout.nonce, index.zone_count,
                                            now, alloc)
     IN  IF r.result = "UDS_SUCCESS"
           THEN /\ saves' = [saves EXCEPT ![save_slot] =
                               [r.isl EXCEPT !.index_state_buffer =
                                               <<write_index_state_data(index)>>]]
                /\ Continue("open_chapter")
                /\ UNCHANGED log
           ELSE /\ saves' = [saves EXCEPT ![save_slot] = r.isl]
                /\ Fail(r.result)
                /\ log' = <<>>
  /\ UNCHANGED <<store, layout, hdr, fresh, index, zone, crashedAt>>

\* The step with any reading of the clock: ktime_get_real() may repeat a
\* value or step backwards between two saves.
SaveInstantiate(now, alloc) ==
  /\ InstantiateStep(now, alloc)
  /\ UNCHANGED lastClock

\* The step with a reading later than every earlier one; lastClock records
\* the reading.
SaveInstantiateLater(now, alloc) ==
  /\ now > lastClock
  /\ InstantiateStep(now, alloc)
  /\ lastClock' = now

\* A step of save_index_state that writes one sub-region through a buffered
\* writer: io is "ok", "open_fail" (no writer) or "write_fail" (the region is
\* not written in full).  On failure the save is cancelled.
WriteSubRegion(kind, z, io, next) ==
  LET f == find_layout_region(saves[save_slot], kind, z) IN
  IF f.result # "UDS_SUCCESS" \/ io = "open_fail"
    THEN /\ saves' = cancel_uds_index_save(saves, save_slot)
         /\ Fail(IF f.result # "UDS_SUCCESS" THEN f.result ELSE "EIO")
         /\ log' = <<>>
         /\ UNCHANGED fresh
  ELSE /\ fresh' = WriteRegion(fresh, f.lr, 0 - layout.super.start_offset,
                               IF io = "ok" THEN 1 ELSE 0)
       /\ IF io = "ok"
            THEN /\ Continue(next)
                 /\ log' = Append(log, [kind |-> f.lr.kind,
                                        instance |-> f.lr.instance,
                                        type |-> "",
                                        block |-> f.lr.start_block
                                                    - layout.super.start_offset])
                 /\ UNCHANGED saves
            ELSE /\ saves' = cancel_uds_index_save(saves, save_slot)
                 /\ Fail("EIO")
                 /\ log' = <<>>

\* open_uds_index_buffered_writer(OPEN_CHAPTER) and save_open_chapters.
SaveOpenChapter(io) ==
  /\ pc = "open_chapter"
  /\ WriteSubRegion("OPEN_CHAPTER", 0, io, "open_zones")
  /\ zone' = 0
  /\ UNCHANGED <<store, layout, hdr, index, crashedAt, lastClock>>

\* The loop that opens one writer per zone.
SaveOpenZoneWriters(ok) ==
  /\ pc = "open_zones"
  /\ LET bad == {z \in 0 .. (index.zone_count - 1) :
                   find_layout_region(saves[save_slot], "VOLUME_INDEX", z).result
                     # "UDS_SUCCESS"}
     IN  IF ok /\ bad = {}
           THEN /\ Continue("volume_index")
                /\ UNCHANGED <<saves, log>>
           ELSE /\ saves' = cancel_uds_index_save(saves, save_slot)
                /\ Fail(IF bad # {} THEN "UDS_UNEXPECTED_RESULT" ELSE "EIO")
                /\ log' = <<>>
  /\ UNCHANGED <<store, layout, hdr, fresh, index, zone, crashedAt, lastClock>>

\* save_volume_index writes the zones through writers[0], writers[1], ...
SaveVolumeIndexZone(io) ==
  /\ pc = "volume_index"
  /\ zone < index.zone_count
  /\ WriteSubRegion("VOLUME_INDEX", zone, io,
                    IF zone + 1 = index.zone_count
                      THEN "index_page_map" ELSE "volume_index")
  /\ zone' = IF io = "ok" /\ zone + 1 < index.zone_count THEN zone + 1 ELSE 0
  /\ UNCHANGED <<store, layout, hdr, index, crashedAt, lastClock>>

\* open_uds_index_buffered_writer(INDEX_PAGE_MAP) and write_index_page_map.
SavePageMap(io) ==
  /\ pc = "index_page_map"
  /\ WriteSubRegion("INDEX_PAGE_MAP", 0, io, "commit")
  /\ UNCHANGED <<store, layout, hdr, index, zone, crashedAt, lastClock>>

LastThree(seq) ==
  IF Len(seq) > 3 THEN SubSeq(seq, Len(seq) - 2, Len(seq)) ELSE seq

\* return commit_uds_index_save(layout, save_slot);
SaveCommit(io) ==
  /\ pc = "commit"
  /\ LET w == commit_uds_index_save(saves, save_slot, io)
     IN  /\ saves' = [saves EXCEPT ![save_slot] = w.isl]
         /\ HeaderWritten(w)
         /\ IF w.result = "UDS_SUCCESS"
              THEN /\ pc' = "idle"
                   /\ result' = "UDS_SUCCESS"
                   /\ save_slot' = NoSlot
                   /\ preLatest' = NoSlot
                   /\ recent' = IF lastClock = 0 THEN <<>>
                                ELSE LastThree(Append(recent,
                                                      w.isl.save_data.timestamp))
              ELSE Fail(w.result)
  /\ UNCHANGED <<store, layout, index, zone, crashedAt, lastClock>>

(***************************************************************************)
(* load_index_state, close or crash, and re-open.                          *)
(***************************************************************************)
\* load_index_state: io is "ok" or "read_fail" (the open chapter cannot be
\* read); reads lists the sub-regions a reader was opened on.
load_index_state(slots, volume_nonce, max_saves, ix, io) ==
  LET load_slot == select_latest_index_save_layout(slots, volume_nonce, max_saves)
  IN  IF load_slot = NoSlot
        THEN [result |-> "UDS_INDEX_NOT_SAVED_CLEANLY", slots |-> slots,
              index |-> ix, reads |-> <<>>]
      ELSE IF slots[load_slot].index_state_buffer = <<>>
        THEN [result |-> "UDS_BUFFER_ERROR", slots |-> slots, index |-> ix,
              reads |-> <<>>]
      ELSE
        LET r == read_index_state_data(slots[load_slot].index_state_buffer[1], ix)
            slots1 == [slots EXCEPT ![load_slot].index_state_buffer = <<r.buffer>>]
        IN  IF r.result # "UDS_SUCCESS"
              THEN [result |-> r.result, slots |-> slots1, index |-> ix,
                    reads |-> <<>>]
            ELSE IF find_layout_region(slots[load_slot], "OPEN_CHAPTER", 0).result
                      # "UDS_SUCCESS"
              THEN [result |-> "UDS_UNEXPECTED_RESULT", slots |-> slots1,
                    index |-> r.index, reads |-> <<>>]
            ELSE IF io = "ok"
              THEN [result |-> "UDS_SUCCESS", slots |-> slots1,
                    index |-> r.index,
                    reads |-> <<"OPEN_CHAPTER">>
                                \o [z \in 1 .. slots[load_slot].num_zones |->
                                      "VOLUME_INDEX"]
                                \o <<"INDEX_PAGE_MAP">>]
            ELSE [result |-> "EIO", slots |-> slots1, index |-> r.index,
                  reads |-> <<"OPEN_CHAPTER">>]

LoadState(io) ==
  /\ pc = "idle"
  /\ LET r == load_index_state(saves, layout.nonce, layout.super.max_saves,
                               index, io)
     IN  /\ saves' = r.slots
         /\ index' = r.index
         /\ result' = r.result
  /\ UNCHANGED <<store, layout, hdr, fresh, pc, save_slot, zone, log, preLatest,
                 crashedAt, lastClock, recent>>

\* The layout is freed (free_uds_index_layout) or the machine crashes: the
\* memory is gone, the disk stays as it is.
CloseOrCrash ==
  /\ pc # "closed"
  /\ crashedAt' = IF pc = "idle" THEN "none"
                  ELSE IF pc = "invalidate" THEN "before" ELSE "after"
  /\ pc' = "closed"
  /\ saves' = allocate_single_file_parts
  /\ index' = [index EXCEPT !.newest_virtual_chapter = 0,
                            !.oldest_virtual_chapter = 0,
                            !.last_save = 0]
  /\ result' = "closed"
  /\ log' = <<>>
  /\ recent' = IF pc = "idle" THEN recent ELSE <<>>
  /\ UNCHANGED <<store, layout, hdr, fresh, save_slot, zone, preLatest, lastClock>>

\* make_uds_index_layout(config, new_layout = false) on the store.
Open(zone_count) ==
  /\ pc = "closed"
  /\ \E r \in {load_sub_index_regions(layout.super, TableSaves, hdr)} :
       /\ saves' = r.slots
       /\ result' = r.result
       /\ pc' = IF r.result = "UDS_SUCCESS" THEN "idle" ELSE "closed"
  /\ index' = [index EXCEPT !.zone_count = zone_count]
  /\ crashedAt' = "none"
  /\ save_slot' = NoSlot
  /\ preLatest' = NoSlot
  /\ zone' = 0
  /\ UNCHANGED <<store, layout, hdr, fresh, log, lastClock, recent>>

Instantiate ==
  \E now \in 1 .. MaxTime, alloc \in {"ok", "open_chapter", "zones", "buffer"} :
    SaveInstantiate(now, alloc)

InstantiateLater ==
  \E now \in 1 .. MaxTime, alloc \in {"ok", "open_chapter", "zones", "buffer"} :
    SaveInstantiateLater(now, alloc)

OtherSteps ==
  \/ \E k \in 0 .. MaxCounter : SaveSelect(k)
  \/ \E io \in {"ok", "open_fail", "write_fail_lost", "write_fail_landed"} :
       SaveInvalidate(io)
  \/ \E io \in {"ok", "open_fail", "write_fail"} : SaveOpenChapter(io)
  \/ \E ok \in BOOLEAN : SaveOpenZoneWriters(ok)
  \/ \E io \in {"ok", "write_fail"} : SaveVolumeIndexZone(io)
  \/ \E io \in {"ok", "open_fail", "write_fail"} : SavePageMap(io)
  \/ \E io \in {"ok", "open_fail", "write_fail_lost", "write_fail_landed"} :
       SaveCommit(io)
  \/ \E io \in {"ok", "read_fail"} : LoadState(io)
  \/ CloseOrCrash
  \/ \E zone_count \in 1 .. MaxZones : Open(zone_count)

Next == Instantiate \/ OtherSteps

Spec == Init /\ [][Next]_vars

\* The same program under a clock whose readings strictly increase.
NextMonotone == InstantiateLater \/ OtherSteps

SpecMonotone == Init /\ [][NextMonotone]_vars

(***************************************************************************)
(* validate_index_save_layout and the two selections as functions of the   *)
(* slot records: the records are drawn from a bounded set and each function *)
(* is applied to them.                                                      *)
(***************************************************************************)
\* A slot record as instantiate_index_save_layout stamps it at time now, with
\* the fields that validate_index_save_layout reads set as given; nonce is
\* "stamped" (left as stamped), "zero" or "other".
SlotInput(s, save_type, num_zones, now, nonce) ==
  LET isl == instantiate_index_save_layout(CreatedSave(s), layout.super,
                                           layout.nonce, 1, now, "ok").isl
  IN  [isl EXCEPT
        !.save_type = save_type,
        !.num_zones = num_zones,
        !.save_data.nonce = IF nonce = "stamped" THEN @
                            ELSE IF nonce = "zero" THEN 0
                            ELSE (@ + 1) % HashMod]

\* The fields drawn for one slot.
SlotFields ==
  [save_type : {"IS_SAVE", "NO_SAVE"}, num_zones : 0 .. 1,
   now : 0 .. MaxTime, nonce : {"stamped", "zero", "other"}]

InitSelect ==
  /\ \E cr \in {Created} :
       /\ store = cr.store
       /\ layout = cr.layout
  /\ \E f \in [Slots -> SlotFields] :
       saves = [s \in Slots |->
                  SlotInput(s, f[s].save_type, f[s].num_zones, f[s].now,
                            f[s].nonce)]
  /\ hdr = [s \in Slots |->
              write_index_save_header(CreatedSave(s),
                                      make_index_save_region_table(CreatedSave(s)))]
  /\ fresh = [b \in 0 .. (TotalBlocks - 1) |-> 0]
  /\ index = [newest_virtual_chapter |-> 0, oldest_virtual_chapter |-> 0,
              last_save |-> 0, zone_count |-> 1]
  /\ pc = "input"
  /\ save_slot = NoSlot
  /\ zone = 0
  /\ result = "UDS_SUCCESS"
  /\ log = <<>>
  /\ preLatest = NoSlot
  /\ crashedAt = "none"
  /\ lastClock = 0
  /\ recent = <<>>

\* validate_index_save_layout(&sil->saves[s], sil->nonce, NULL)
ApplyValidate(s) ==
  /\ pc = "input"
  /\ pc' = "validated"
  /\ save_slot' = s
  /\ result' = validate_index_save_layout(saves[s], layout.nonce)
  /\ UNCHANGED <<store, layout, saves, hdr, fresh, index, zone, log, preLatest,
                 crashedAt, lastClock, recent>>

\* select_oldest_index_save_layout(sil, max_saves, &isl)
ApplySelectOldest ==
  /\ pc = "input"
  /\ pc' = "oldest"
  /\ save_slot' = select_oldest_index_save_layout(saves, layout.nonce,
                                                  layout.super.max_saves)
  /\ result' = "UDS_SUCCESS"
  /\ UNCHANGED <<store, layout, saves, hdr, fresh, index, zone, log, preLatest,
                 crashedAt, lastClock, recent>>

\* select_latest_index_save_layout(sil, max_saves, &isl)
ApplySelectLatest ==
  /\ pc = "input"
  /\ pc' = "latest"
  /\ save_slot' = select_latest_index_save_layout(saves, layout.nonce,
                                                  layout.super.max_saves)
  /\ result' = IF save_slot' = NoSlot THEN "UDS_INDEX_NOT_SAVED_CLEANLY"
                                      ELSE "UDS_SUCCESS"
  /\ UNCHANGED <<store, layout, saves, hdr, fresh, index, zone, log, preLatest,
                 crashedAt, lastClock, recent>>

NextSelect ==
  \/ \E s \in Slots : ApplyValidate(s)
  \/ ApplySelectOldest
  \/ ApplySelectLatest

SpecSelect == InitSelect /\ [][NextSelect]_vars

(***************************************************************************)
(* Properties of the selections and of the validation.                     *)
(***************************************************************************)
Valid(isl) == validate_index_save_layout(isl, layout.nonce) = "UDS_SUCCESS"

\* The timestamp a slot counts with in select_oldest: 0 if it is not valid.
EffectiveTime(isl) == IF Valid(isl) THEN isl.save_data.timestamp ELSE 0

\* C8: select_oldest returns the slot with the smallest effective timestamp
\* (a slot failing validate_save counts as 0), and among the slots with that
\* timestamp the one with the lowest index.
C8_SelectOldest ==
  pc = "oldest" =>
    /\ save_slot \in Slots
    /\ \A t \in Slots :
         /\ EffectiveTime(saves[save_slot]) <= EffectiveTime(saves[t])
         /\ EffectiveTime(saves[t]) = EffectiveTime(saves[save_slot])
              => save_slot <= t

\* select_oldest has chosen between two valid slots of equal timestamp.
C8_Witness ==
  /\ pc = "oldest"
  /\ save_slot = 0
  /\ \A t \in Slots : Valid(saves[t])
  /\ saves[0].save_data.timestamp = saves[1].save_data.timestamp

\* C9: select_latest returns a slot that passes validate_save and whose
\* timestamp is at least that of every slot passing validate_save; it returns
\* IndexNotSavedCleanly exactly when no slot passes validate_save.
C9_SelectLatest ==
  pc = "latest" =>
    LET valid == {t \in Slots : Valid(saves[t])}
    IN  /\ (result = "UDS_INDEX_NOT_SAVED_CLEANLY") <=> (valid = {})
        /\ (save_slot = NoSlot) <=> (valid = {})
        /\ save_slot # NoSlot =>
             /\ save_slot \in valid
             /\ \A t \in valid : saves[save_slot].save_data.timestamp
                                   >= saves[t].save_data.timestamp

\* select_latest has preferred slot 1 to a valid slot 0 of smaller timestamp.
C9_Witness ==
  /\ pc = "latest"
  /\ save_slot = 1
  /\ Valid(saves[0])
  /\ saves[0].save_data.timestamp < saves[1].save_data.timestamp

\* C10: validate_save returns success if and only if the type is SAVE,
\* num_zones > 0, timestamp # 0 and the stored nonce is the secondary nonce of
\* the sub-index nonce over the encoding of the save data with its nonce
\* field 0 followed by the start block of the slot; otherwise BadState.
C10_ValidateSave ==
  pc = "validated" =>
    LET isl == saves[save_slot]
        expected ==
          generate_secondary_nonce(
            layout.nonce,
            encode_index_save_data([isl.save_data EXCEPT !.nonce = 0])
              \o EncodeLE(isl.index_save.start_block, 8))
    IN  /\ result \in {"UDS_SUCCESS", "UDS_BAD_STATE"}
        /\ (result = "UDS_SUCCESS") <=>
             /\ isl.save_type = "IS_SAVE"
             /\ isl.num_zones > 0
             /\ isl.save_data.timestamp # 0
             /\ isl.save_data.nonce = expected

\* validate_save has rejected a slot for its nonce alone.
C10_Witness ==
  /\ pc = "validated"
  /\ result = "UDS_BAD_STATE"
  /\ saves[save_slot].save_type = "IS_SAVE"
  /\ saves[save_slot].num_zones > 0
  /\ saves[save_slot].save_data.timestamp # 0

(***************************************************************************)
(* Properties of save_index_state and load_index_state.                    *)
(***************************************************************************)
SaveSteps ==
  {"invalidate", "instantiate", "open_chapter", "open_zones", "volume_index",
   "index_page_map", "commit"}

\* The slots as make_uds_index_layout finds them on the disk.
Reopened(disk) == load_sub_index_regions(layout.super, TableSaves, disk)

Latest(slots) ==
  select_latest_index_save_layout(slots, layout.nonce, layout.super.max_saves)

Oldest(slots) ==
  select_oldest_index_save_layout(slots, layout.nonce, layout.super.max_saves)

\* C1: if select_latest returns X when a save begins and a crash interrupts
\* that save before its final SAVE header write has completed, then after
\* re-opening select_latest returns X again and the slot the save had chosen
\* fails validate_save.
C1_CrashKeepsLatest ==
  (pc = "closed" /\ crashedAt # "none" /\ preLatest # NoSlot) =>
    /\ Reopened(hdr).result = "UDS_SUCCESS"
    /\ Latest(Reopened(hdr).slots) = preLatest
    /\ ~Valid(Reopened(hdr).slots[save_slot])

\* The i-th disk write of a save_index_state call of an index with zone_count
\* zones: its kind, instance and header type.
ExpectedWrite(i, zone_count) ==
  IF i = 1
    THEN <<"HEADER", RL_SOLE_INSTANCE, "RH_TYPE_UNSAVED">>
  ELSE IF i = 2
    THEN <<"OPEN_CHAPTER", RL_SOLE_INSTANCE, "">>
  ELSE IF i <= 2 + zone_count
    THEN <<"VOLUME_INDEX", i - 3, "">>
  ELSE IF i = 3 + zone_count
    THEN <<"INDEX_PAGE_MAP", RL_SOLE_INSTANCE, "">>
  ELSE <<"HEADER", RL_SOLE_INSTANCE, "RH_TYPE_SAVE">>

\* C2: the writes of one save_index_state call go to the chosen slot in the
\* order UNSAVED header (on disk before any data write), OPEN_CHAPTER, the
\* VOLUME_INDEX zones in ascending order, INDEX_PAGE_MAP, and last the SAVE
\* header, which is written only after every earlier write succeeded.
C2_WriteOrder ==
  log # <<>> =>
    /\ Len(log) <= index.zone_count + 4
    /\ \A i \in 1 .. Len(log) :
         <<log[i].kind, log[i].instance, log[i].type>>
           = ExpectedWrite(i, index.zone_count)
    /\ \E s \in Slots :
         /\ \A i \in 1 .. Len(log) :
              /\ log[i].block \in SlotBlocks(s)
              /\ log[i].kind = "HEADER" => log[i].block = SlotStart(s)
         /\ pc \in SaveSteps => s = save_slot
         /\ hdr[s].type = IF Len(log) = index.zone_count + 4
                            THEN "RH_TYPE_SAVE" ELSE "RH_TYPE_UNSAVED"

\* A save of an index with two zones has written its SAVE header.
C2_Witness ==
  /\ index.zone_count = 2
  /\ Len(log) = 6
  /\ log[6].type = "RH_TYPE_SAVE"

\* The in-memory record of a slot is cancelled.
Cancelled(isl) ==
  /\ isl.save_data = ZeroSaveData
  /\ isl.save_type = "NO_SAVE"
  /\ isl.index_state_buffer = <<>>
  /\ ~Valid(isl)

\* C3: whenever save_index_state returns an error, at whichever step, the
\* in-memory record of the chosen slot is cancelled on return.
C3_CancelledOnError ==
  [][(pc \in SaveSteps /\ pc' = "idle" /\ result' # "UDS_SUCCESS")
       => Cancelled(saves'[save_slot])]_vars

\* C4: when a save is cancelled after invalidate and before the final header
\* write, select_latest returns what it returned before the call (the slot,
\* or IndexNotSavedCleanly); the cancel writes no header and changes the
\* record of no other slot.
C4_CancelKeepsLatest ==
  [][(pc \in {"open_chapter", "open_zones", "volume_index", "index_page_map"}
        /\ pc' = "idle")
       => /\ Latest(saves') = preLatest
          /\ hdr' = hdr
          /\ \A s \in Slots \ {save_slot} : saves'[s] = saves[s]]_vars

\* C5: after every successful save_index_state, validate_save accepts the slot
\* just written and select_latest returns it, in the same session and after
\* close and re-open.
C5_SavedIsLatest ==
  [][(pc = "commit" /\ pc' = "idle" /\ result' = "UDS_SUCCESS")
       => /\ Valid(saves'[save_slot])
          /\ Latest(saves') = save_slot
          /\ Reopened(hdr').result = "UDS_SUCCESS"
          /\ Valid(Reopened(hdr').slots[save_slot])
          /\ Latest(Reopened(hdr').slots) = save_slot]_vars

\* load_index_state into an index whose counters are zero.
LoadFrom(slots) ==
  load_index_state(slots, layout.nonce, layout.super.max_saves,
                   [index EXCEPT !.newest_virtual_chapter = 0,
                                 !.oldest_virtual_chapter = 0,
                                 !.last_save = 0],
                   "ok")

\* C6: a successful save_index_state followed by load_index_state, with or
\* without close and re-open in between, and also when the load is repeated,
\* recovers the three counters that were saved.
C6_LoadRecoversCounters ==
  [][(pc = "commit" /\ pc' = "idle" /\ result' = "UDS_SUCCESS")
       => /\ LoadFrom(saves').result = "UDS_SUCCESS"
          /\ Counters(LoadFrom(saves').index) = Counters(index)
          /\ LoadFrom(LoadFrom(saves').slots).result = "UDS_SUCCESS"
          /\ Counters(LoadFrom(LoadFrom(saves').slots).index) = Counters(index)
          /\ LoadFrom(Reopened(hdr').slots).result = "UDS_SUCCESS"
          /\ Counters(LoadFrom(Reopened(hdr').slots).index) = Counters(index)]_vars

\* C7: with two slots and strictly increasing timestamps, after three
\* successful saves t1 < t2 < t3 select_latest returns the slot with t3,
\* select_oldest the slot with t2, and no slot holds t1.
C7_RoundRobin ==
  (pc = "idle" /\ Len(recent) = 3) =>
    /\ recent[1] < recent[2] /\ recent[2] < recent[3]
    /\ Latest(saves) # NoSlot
    /\ saves[Latest(saves)].save_data.timestamp = recent[3]
    /\ Valid(saves[Oldest(saves)])
    /\ saves[Oldest(saves)].save_data.timestamp = recent[2]
    /\ \A s \in Slots : saves[s].save_data.timestamp # recent[1]

\* Three saves in a row have succeeded, each at a later time than every clock
\* reading before it.
C7_Witness ==
  /\ pc = "idle"
  /\ Len(recent) = 3
  /\ result = "UDS_SUCCESS"

(***************************************************************************)
(* Creating and opening stores: make_uds_index_layout on stores that were  *)
(* created, converted, or damaged in one place.                            *)
(***************************************************************************)
\* bytes with the bytes from position from on replaced by new.
Patch(bytes, from, new) ==
  SubSeq(bytes, 1, from - 1) \o new
    \o SubSeq(bytes, from + Len(new), Len(bytes))

\* The stores opened: the created store (version 3), and the created store
\* after update_uds_layout(lvm_offset = lvm blocks, offset = offset blocks),
\* seen as the device that begins lvm blocks further on (version 7).
Bases ==
  {[version |-> 3, lvm |-> 0, offset |-> 0]}
    \cup {[version |-> 7, lvm |-> l, offset |-> o] :
            l \in 0 .. MaxOffset,
            o \in {x \in 0 .. MaxOffset : x <= VolumeBlocks}}

BaseStore(cr, base) ==
  IF base.version = 3 THEN cr.store
  ELSE [update_uds_layout(cr.layout, cr.slots, ModelConfig,
                          base.lvm * UDS_BLOCK_SIZE,
                          base.offset * UDS_BLOCK_SIZE,
                          cr.store, "ok").store
          EXCEPT !.start = base.lvm]

\* The disk block of the header of a base store, and the block of the store
\* a reader has to start at to see it.
HeaderAt(base) == base.offset
OffsetOf(base) == base.offset - base.lvm

Faults ==
  {"none", "magic", "table_version", "type", "label", "num_indexes", "nonce",
   "block_size", "offsets", "gap", "extra_region", "config", "slot_magic",
   "saved_1_zone", "saved_2_zones", "small"}

\* The header block with the super block version overwritten, and one fault.
DamagedHeader(block, version, fault) ==
  LET b == [block EXCEPT !.data = Patch(@, 73, EncodeLE(version, 4))]
  IN  IF fault = "magic" THEN [b EXCEPT !.magic = "AlbRgn02"]
      ELSE IF fault = "table_version" THEN [b EXCEPT !.version = 2]
      ELSE IF fault = "type" THEN [b EXCEPT !.type = "RH_TYPE_SAVE"]
      ELSE IF fault = "label" THEN [b EXCEPT !.data = Patch(@, 32, <<50>>)]
      ELSE IF fault = "num_indexes"
        THEN [b EXCEPT !.data = Patch(@, 81, EncodeLE(2, 2))]
      ELSE IF fault = "nonce"
        THEN [b EXCEPT !.data =
                Patch(@, 65, EncodeLE((DecodeLE(SubSeq(@, 65, 72)) + 1) % HashMod, 8))]
      ELSE IF fault = "block_size"
        THEN [b EXCEPT !.data = Patch(@, 77, EncodeLE(512, 4))]
      ELSE IF fault = "offsets" /\ Len(b.data) = SuperDataSize
        THEN [b EXCEPT !.data =
                Patch(@, 105, EncodeLE(0, 8) \o EncodeLE(1, 8))]
      ELSE IF fault = "gap"
        THEN [b EXCEPT !.regions[Len(b.regions)].start_block = @ + 1]
      ELSE IF fault = "extra_region"
        THEN [b EXCEPT !.regions = Append(@, Region(0, 1, "SCRATCH", 0)),
                       !.num_regions = @ + 1]
      ELSE b

DamagedStore(cr, base, version, fault) ==
  LET Damaged(st) ==
        IF fault = "small" THEN [st EXCEPT !.size = @ - UDS_BLOCK_SIZE]
        ELSE IF fault = "config"
          THEN [st EXCEPT !.block[HeaderAt(base) + 1].config.bytes_per_volume = 0]
        ELSE st
  IN  Damaged([BaseStore(cr, base) EXCEPT
                 !.block[HeaderAt(base)] = DamagedHeader(@, version, fault)])

\* The header of slot 0 after a save with num_zones zones at time 1 was
\* committed to it.
SavedHeader(cr, num_zones) ==
  LET Commit(isl) == write_index_save_layout(
                       [isl EXCEPT !.index_state_buffer =
                                      <<write_index_state_data(
                                          [newest_virtual_chapter |-> 1,
                                           oldest_virtual_chapter |-> 0,
                                           last_save |-> 1,
                                           zone_count |-> num_zones])>>],
                       "ok").block[1]
  IN  Commit(instantiate_index_save_layout(
               cr.slots[0], cr.layout.super, cr.layout.nonce,
               num_zones, 1, "ok").isl)

DamagedSlots(cr, fault) ==
  IF fault = "slot_magic"
    THEN [cr.disk EXCEPT ![0].magic = "AlbRgn02"]
  ELSE IF fault = "saved_1_zone"
    THEN [cr.disk EXCEPT ![0] = SavedHeader(cr, 1)]
  ELSE IF fault = "saved_2_zones"
    THEN [cr.disk EXCEPT ![0] = SavedHeader(cr, 2)]
  ELSE cr.disk

\* log[1] tells which store the run began with; the entries after it are the
\* calls of make_uds_index_layout, each with its arguments and its result.
InitOpen ==
  /\ \E cr \in {Created}, base \in Bases, version \in 1 .. 8,
        fault \in Faults :
       /\ store = DamagedStore(cr, base, version, fault)
       /\ hdr = DamagedSlots(cr, fault)
       /\ log = <<[op |-> "store", base |-> base, version |-> version,
                   fault |-> fault]>>
  /\ layout = ZeroLayout
  /\ saves = allocate_single_file_parts
  /\ fresh = [b \in 0 .. (TotalBlocks - 1) |-> 0]
  /\ index = [newest_virtual_chapter |-> 0, oldest_virtual_chapter |-> 0,
              last_save |-> 0, zone_count |-> 1]
  /\ pc = "closed"
  /\ save_slot = NoSlot
  /\ zone = 0
  /\ result = "UDS_SUCCESS"
  /\ preLatest = NoSlot
  /\ crashedAt = "none"
  /\ lastClock = 0
  /\ recent = <<>>

\* make_uds_index_layout(config, new_layout, &layout), config->offset being
\* offset blocks.
MakeLayout(new_layout, offset, io) ==
  /\ pc = "closed"
  /\ Len(log) < 3
  /\ \E r \in {make_uds_index_layout(
                 [ModelConfig EXCEPT !.offset = offset * UDS_BLOCK_SIZE],
                 new_layout, store, hdr, io)} :
       /\ result' = r.result
       /\ layout' = r.layout
       /\ saves' = r.slots
       /\ store' = r.store
       /\ hdr' = r.disk
       /\ pc' = IF r.result = "UDS_SUCCESS" THEN "open" ELSE "closed"
       /\ log' = Append(log, [op |-> IF new_layout THEN "create" ELSE "open",
                              offset |-> offset, io |-> io,
                              result |-> r.result])
  /\ UNCHANGED <<fresh, index, save_slot, zone, preLatest, crashedAt,
                 lastClock, recent>>

\* A layout is created on a store that begins at disk block 0.
CreateLayout ==
  /\ store.start = 0
  /\ \E io \in {"ok", "slot_fail", "header_fail", "config_fail"} :
       MakeLayout(TRUE, 0, io)

OpenLayout == \E offset \in 0 .. MaxOffset : MakeLayout(FALSE, offset, "ok")

\* free_uds_index_layout
FreeLayout ==
  /\ pc = "open"
  /\ pc' = "closed"
  /\ layout' = ZeroLayout
  /\ saves' = allocate_single_file_parts
  /\ UNCHANGED <<store, hdr, fresh, index, save_slot, zone, result, log,
                 preLatest, crashedAt, lastClock, recent>>

NextOpen == CreateLayout \/ OpenLayout \/ FreeLayout

SpecOpen == InitOpen /\ [][NextOpen]_vars

(***************************************************************************)
(* Properties of created and opened layouts.                               *)
(***************************************************************************)
LastCall == log[Len(log)]

\* The store has exactly the computed size.
ExactSize == store.size = compute_sizes(ModelConfig).sls.total_size

\* The layout has two slots, none of them valid, and nothing to load.
NothingSaved ==
  /\ layout.super.max_saves = 2
  /\ DOMAIN saves = 0 .. 1
  /\ \A s \in DOMAIN saves :
       validate_index_save_layout(saves[s], layout.nonce) = "UDS_BAD_STATE"
  /\ select_latest_index_save_layout(saves, layout.nonce,
                                     layout.super.max_saves) = NoSlot
  /\ load_index_state(saves, layout.nonce, layout.super.max_saves, index,
                      "ok").result = "UDS_INDEX_NOT_SAVED_CLEANLY"

\* C11: make_uds_index_layout(config, true) on a store of exactly the
\* computed size succeeds, and so does make_uds_index_layout(config, false)
\* on the store it leaves; each time the layout has exactly two save slots,
\* validate_index_save_layout fails with UDS_BAD_STATE on each of them, and
\* select_latest_index_save_layout and load_index_state report
\* UDS_INDEX_NOT_SAVED_CLEANLY.
C11_FreshCreateAndOpen ==
  /\ (Len(log) >= 2 /\ LastCall.op = "create" /\ LastCall.io = "ok" /\ ExactSize)
       => /\ LastCall.result = "UDS_SUCCESS"
          /\ pc = "open" => NothingSaved
  /\ (Len(log) = 3 /\ ExactSize
        /\ log[2].op = "create" /\ log[2].result = "UDS_SUCCESS"
        /\ log[3].op = "open" /\ log[3].offset = log[2].offset)
       => /\ log[3].result = "UDS_SUCCESS"
          /\ pc = "open" => NothingSaved

\* A store of exactly the computed size was created and then opened.
C11_Witness ==
  /\ Len(log) = 3
  /\ ExactSize
  /\ log[2].op = "create" /\ log[2].result = "UDS_SUCCESS"
  /\ log[3].op = "open" /\ log[3].result = "UDS_SUCCESS"
  /\ pc = "open"
  /\ NothingSaved

(***************************************************************************)
(* The sub-index nonce: define_sub_index_nonce on every primary nonce.     *)
(***************************************************************************)
\* A layout whose super block carries primary nonce nonce and whose
\* sub-index starts two blocks after block first.
InitNonce ==
  /\ \E nonce \in 0 .. (HashMod - 1), first \in 0 .. MaxFirstBlock :
       layout = [ZeroLayout EXCEPT
                   !.super.nonce = nonce,
                   !.offset = first * UDS_BLOCK_SIZE,
                   !.sub_index = Region(first + 2,
                                        VolumeBlocks + NumSaves * SaveBlocks,
                                        "INDEX", 0)]
  /\ store = EmptyStore(0)
  /\ saves = allocate_single_file_parts
  /\ hdr = [s \in Slots |-> NoBlock]
  /\ fresh = [b \in 0 .. (TotalBlocks - 1) |-> 0]
  /\ index = [newest_virtual_chapter |-> 0, oldest_virtual_chapter |-> 0,
              last_save |-> 0, zone_count |-> 1]
  /\ pc = "input"
  /\ save_slot = NoSlot
  /\ zone = 0
  /\ result = "UDS_SUCCESS"
  /\ log = <<>>
  /\ preLatest = NoSlot
  /\ crashedAt = "none"
  /\ lastClock = 0
  /\ recent = <<>>

\* define_sub_index_nonce(layout, 0)
ApplyDefineNonce ==
  /\ pc = "input"
  /\ pc' = "nonce"
  /\ layout' = [layout EXCEPT
                  !.nonce = define_sub_index_nonce(
                              layout.super.nonce,
                              layout.sub_index.start_block, 0)]
  /\ UNCHANGED <<store, saves, hdr, fresh, index, save_slot, zone, result,
                 log, preLatest, crashedAt, lastClock, recent>>

NextNonce == ApplyDefineNonce

SpecNonce == InitNonce /\ [][NextNonce]_vars

\* C12: the nonce of the sub-index (what get_uds_volume_nonce returns) is not
\* 0, for every primary nonce and every block the sub-index starts at.
C12_VolumeNonceNotZero ==
  pc = "nonce" => get_uds_volume_nonce(layout) # 0

\* The first attempt of define_sub_index_nonce gave 0 and the second did not.
C12_Witness ==
  /\ pc = "nonce"
  /\ define_without_retry(layout.super.nonce, layout.sub_index.start_block, 0) = 0
  /\ get_uds_volume_nonce(layout) # 0

(***************************************************************************)
(* Properties of opening a store.                                          *)
(***************************************************************************)
\* The first call was make_uds_index_layout(config, false) with the offset at
\* which the header of the store lies.
FirstOpened ==
  /\ Len(log) >= 2
  /\ log[2].op = "open"
  /\ log[2].offset = OffsetOf(log[1].base)

\* The store is as create_index_layout or update_uds_layout left it but for
\* the version field of the super block, and the super block data has the
\* length that goes with that version.
WellFormedButVersion ==
  /\ log[1].fault = "none"
  /\ log[1].base.lvm <= log[1].base.offset
  /\ (log[1].version = 7) <=> (log[1].base.version = 7)

TopHeader == ReadBlock(store, log[2].offset)

\* The first call was make_uds_index_layout(config, false), on a store large
\* enough for the layout, at the offset at which the header of the store
\* lies, and no call followed it.
OpenedOnce ==
  /\ FirstOpened
  /\ Len(log) = 2
  /\ log[1].fault # "small"

\* C14: make_uds_index_layout(config, false) returns UDS_NO_INDEX if and only
\* if the magic of the header block of the layout is not REGION_MAGIC; a
\* failure found after that magic matched, a bad magic in the header of a
\* save slot included, has another result.
C14_NoIndexIffTopMagic ==
  OpenedOnce
    => (log[2].result = "UDS_NO_INDEX" <=> TopHeader.magic # REGION_MAGIC)

\* The same for the stores whose save slot headers carry REGION_MAGIC.
C14_NoIndexWithSoundSlots ==
  (OpenedOnce /\ log[1].fault # "slot_magic")
    => (log[2].result = "UDS_NO_INDEX" <=> TopHeader.magic # REGION_MAGIC)

\* C15: every layout that make_uds_index_layout returns with UDS_SUCCESS,
\* created or opened, has super.num_indexes = 1, super.version 3 or 7,
\* super.volume_offset >= super.start_offset, and super.nonce equal to
\* generate_primary_nonce(super.nonce_info).
C15_SuperInvariants ==
  pc = "open"
    => /\ layout.super.num_indexes = 1
       /\ layout.super.version \in {3, 7}
       /\ layout.super.volume_offset >= layout.super.start_offset
       /\ generate_primary_nonce(layout.super.nonce_info) = layout.super.nonce

\* A layout was opened whose volume offset is larger than its start offset.
C15_Witness ==
  /\ pc = "open"
  /\ LastCall.op = "open"
  /\ LastCall.result = "UDS_SUCCESS"
  /\ layout.super.volume_offset > layout.super.start_offset
  /\ layout.super.start_offset > 0

\* The region tables of the layout held: the one in its header block and the
\* one in the header block of save slot s.
TopTable == ReadBlock(store, layout.offset \div UDS_BLOCK_SIZE).regions
SlotTable(s) ==
  ReadSlotBlock(store, hdr,
                saves[s].index_save.start_block - layout.super.start_offset).regions

\* Each region of table t starts where the one before it ends.
Contiguous(t) ==
  \A i \in 2 .. Len(t) :
    t[i].start_block = t[i - 1].start_block + t[i - 1].num_blocks

StrictlyAscending(t) ==
  \A i \in 2 .. Len(t) : t[i].start_block > t[i - 1].start_block

\* The regions of a top-level table up to SEAL: HEADER, CONFIG and INDEX
\* follow one another, VOLUME starts where INDEX starts, the first SAVE starts
\* volume_offset blocks after the end of VOLUME, and the other SAVEs and SEAL
\* follow one another.
TopRegionsInOrder(t, super) ==
  /\ Len(t) >= 5 + super.max_saves
  /\ t[2].start_block = t[1].start_block + t[1].num_blocks
  /\ t[3].start_block = t[2].start_block + t[2].num_blocks
  /\ t[4].start_block = t[3].start_block
  /\ t[5].start_block = t[4].start_block + t[4].num_blocks + super.volume_offset
  /\ \A i \in 6 .. (5 + super.max_saves) :
       t[i].start_block = t[i - 1].start_block + t[i - 1].num_blocks

\* C16 as stated: in the top-level table and in the table of each save slot
\* of a layout that make_uds_index_layout wrote or accepted, the regions are
\* in strictly ascending order of start_block and each starts where the one
\* before it ends.
C16_AllTablesContiguous ==
  pc = "open"
    => /\ StrictlyAscending(TopTable) /\ Contiguous(TopTable)
       /\ \A s \in DOMAIN saves :
            StrictlyAscending(SlotTable(s)) /\ Contiguous(SlotTable(s))

\* C16 amended: the top-level table written or accepted is in the order of
\* TopRegionsInOrder up to its SEAL region, and in the table of each save
\* slot every region starts where the one before it ends.
C16_TablesInOrder ==
  pc = "open"
    => /\ TopRegionsInOrder(TopTable, layout.super)
       /\ \A s \in DOMAIN saves : Contiguous(SlotTable(s))

\* A converted layout was opened whose slot 0 holds a save of two zones.
C16_Witness ==
  /\ pc = "open"
  /\ LastCall.op = "open"
  /\ layout.super.volume_offset = 2
  /\ saves[0].num_zones = 2
  /\ Len(SlotTable(0)) >= 5
  /\ TopRegionsInOrder(TopTable, layout.super)

(***************************************************************************)
(* compute_sizes on every geometry of a few blocks.                        *)
(***************************************************************************)
\* Byte counts of 0..MaxSizeBlocks blocks, whole or one byte more.
ByteSizes ==
  {k * UDS_BLOCK_SIZE + d : k \in 0 .. MaxSizeBlocks, d \in {0, 1}}

\* Page sizes: multiples of the block size and others.
PageSizes ==
  {0, 1, UDS_BLOCK_SIZE \div 2, UDS_BLOCK_SIZE - 1, UDS_BLOCK_SIZE,
   UDS_BLOCK_SIZE + 1, UDS_BLOCK_SIZE + UDS_BLOCK_SIZE \div 2,
   2 * UDS_BLOCK_SIZE}

\* log[1] holds the configuration compute_sizes is called with.
InitSizes ==
  /\ \E bytes_per_page \in PageSizes, bytes_per_volume \in ByteSizes,
        vi_result \in {"UDS_SUCCESS", "UDS_INVALID_ARGUMENT"},
        vi_blocks \in 0 .. MaxSizeBlocks,
        page_map_save_size \in ByteSizes, open_chapter_size \in ByteSizes :
       log = <<[op |-> "config",
                config |-> Configuration(bytes_per_page, bytes_per_volume,
                                         vi_result, vi_blocks,
                                         page_map_save_size,
                                         open_chapter_size, 0, 0)]>>
  /\ store = EmptyStore(0)
  /\ layout = ZeroLayout
  /\ saves = allocate_single_file_parts
  /\ hdr = [s \in Slots |-> NoBlock]
  /\ fresh = [b \in 0 .. (TotalBlocks - 1) |-> 0]
  /\ index = [newest_virtual_chapter |-> 0, oldest_virtual_chapter |-> 0,
              last_save |-> 0, zone_count |-> 1]
  /\ pc = "input"
  /\ save_slot = NoSlot
  /\ zone = 0
  /\ result = "UDS_SUCCESS"
  /\ preLatest = NoSlot
  /\ crashedAt = "none"
  /\ lastClock = 0
  /\ recent = <<>>

\* compute_sizes(config, &sls)
ApplyComputeSizes ==
  /\ pc = "input"
  /\ pc' = "sizes"
  /\ \E r \in {compute_sizes(log[1].config)} :
       /\ result' = r.result
       /\ log' = Append(log, [op |-> "compute_sizes", result |-> r.result,
                              sls |-> r.sls])
  /\ UNCHANGED <<store, layout, saves, hdr, fresh, index, save_slot, zone,
                 preLatest, crashedAt, lastClock, recent>>

NextSizes == ApplyComputeSizes

SpecSizes == InitSizes /\ [][NextSizes]_vars

\* The sizes are as compute_sizes has to leave them.
SizesAsComputed(sls) ==
  /\ sls.num_saves = 2
  /\ sls.save_blocks = 1 + sls.volume_index_blocks + sls.page_map_blocks
                         + sls.open_chapter_blocks
  /\ sls.sub_index_blocks = sls.volume_blocks + 2 * sls.save_blocks
  /\ sls.total_blocks = 3 + sls.sub_index_blocks

SavedSlot(cr, s, num_zones, now) ==
  [instantiate_index_save_layout(cr.slots[s], cr.layout.super,
                                 cr.layout.nonce, num_zones, now,
                                 "ok").isl
     EXCEPT !.index_state_buffer =
              <<write_index_state_data(
                  [newest_virtual_chapter |-> now,
                   oldest_virtual_chapter |-> 0,
                   last_save |-> now, zone_count |-> num_zones])>>]

\* What is drawn for one slot: unused (now = 0) or saved at time now.
DiscardFields == [now : 0 .. MaxTime, num_zones : 1 .. MaxZones]

DiscardSlot(cr, s, f) ==
  IF f.now = 0 THEN cr.slots[s] ELSE SavedSlot(cr, s, f.num_zones, f.now)

\* The loop of discard_uds_index_saves stopping at the first failure.
RECURSIVE DiscardLoopStopping(_, _, _, _, _, _, _)
DiscardLoopStopping(super, slots, disk, ios, i, saved_result, attempts) ==
  LET Step(w) ==
        IF w.result # "UDS_SUCCESS"
          THEN [result |-> w.result,
                slots |-> [slots EXCEPT ![i] = w.isl],
                disk |-> IF w.block # <<>> THEN [disk EXCEPT ![i] = w.block[1]]
                         ELSE disk,
                attempts |-> Append(attempts, [slot |-> i, io |-> ios[i],
                                               result |-> w.result])]
          ELSE DiscardLoopStopping(
                 super, [slots EXCEPT ![i] = w.isl],
                 IF w.block # <<>> THEN [disk EXCEPT ![i] = w.block[1]] ELSE disk,
                 ios, i + 1, saved_result,
                 Append(attempts, [slot |-> i, io |-> ios[i],
                                   result |-> w.result]))
  IN  IF i >= super.max_saves
        THEN [result |-> saved_result, slots |-> slots, disk |-> disk,
              attempts |-> attempts]
        ELSE Step(invalidate_old_save(super, slots[i], ios[i]))

\* The loop of discard_uds_index_saves from slot i on: ios[i] is what happens
\* to the header write of slot i, attempts the calls of invalidate_old_save
\* made so far.
RECURSIVE DiscardLoop(_, _, _, _, _, _, _)
DiscardLoop(super, slots, disk, ios, i, saved_result, attempts) ==
  LET Step(w) ==
        DiscardLoop(
          super, [slots EXCEPT ![i] = w.isl],
          IF w.block # <<>> THEN [disk EXCEPT ![i] = w.block[1]] ELSE disk,
          ios, i + 1,
          IF w.result # "UDS_SUCCESS" THEN w.result ELSE saved_result,
          Append(attempts, [slot |-> i, io |-> ios[i], result |-> w.result]))
  IN  IF i >= super.max_saves
        THEN [result |-> saved_result, slots |-> slots, disk |-> disk,
              attempts |-> attempts]
        ELSE Step(invalidate_old_save(super, slots[i], ios[i]))

discard_uds_index_saves(super, slots, disk, ios) ==
  DiscardLoop(super, slots, disk, ios, 0, "UDS_SUCCESS", <<>>)

discard_index_state_data(super, slots, disk, ios) ==
  discard_uds_index_saves(super, slots, disk, ios)

\* log[1] tells what the slots held before the call.
InitDiscard ==
  /\ \E cr \in {Created}, f \in [Slots -> DiscardFields] :
       /\ store = cr.store
       /\ layout = cr.layout
       /\ saves = [s \in Slots |-> DiscardSlot(cr, s, f[s])]
       /\ hdr = [s \in Slots |->
                   write_index_save_layout(saves[s], "ok").block[1]]
       /\ log = <<[op |-> "slots", fields |-> f]>>
  /\ fresh = [b \in 0 .. (TotalBlocks - 1) |-> 0]
  /\ index = [newest_virtual_chapter |-> 0, oldest_virtual_chapter |-> 0,
              last_save |-> 0, zone_count |-> 1]
  /\ pc = "idle"
  /\ save_slot = NoSlot
  /\ zone = 0
  /\ result = "UDS_SUCCESS"
  /\ preLatest = NoSlot
  /\ crashedAt = "none"
  /\ lastClock = 0
  /\ recent = <<>>

\* discard_index_state_data(layout)
DiscardState ==
  /\ pc = "idle"
  /\ pc' = "discarded"
  /\ \E ios \in [Slots -> {"ok", "open_fail", "write_fail_lost",
                           "write_fail_landed"}] :
     \E r \in {discard_index_state_data(layout.super, saves, hdr, ios)} :
       /\ saves' = r.slots
       /\ hdr' = r.disk
       /\ result' = r.result
       /\ log' = Append(log, [op |-> "discard", attempts |-> r.attempts])
  /\ UNCHANGED <<store, layout, fresh, index, save_slot, zone, preLatest,
                 crashedAt, lastClock, recent>>

\* load_index_state(layout, index) after the discard.
LoadDiscarded ==
  /\ pc = "discarded"
  /\ pc' = "loaded"
  /\ \E r \in {load_index_state(saves, layout.nonce, layout.super.max_saves,
                                index, "ok")} :
       /\ saves' = r.slots
       /\ index' = r.index
       /\ result' = r.result
       /\ log' = Append(log, [op |-> "load", result |-> r.result])
  /\ UNCHANGED <<store, layout, hdr, fresh, save_slot, zone, preLatest,
                 crashedAt, lastClock, recent>>

NextDiscard == DiscardState \/ LoadDiscarded

SpecDiscard == InitDiscard /\ [][NextDiscard]_vars

\* C19: discard_index_state_data calls invalidate_old_save on every slot, in
\* order, whatever the calls before returned; when it has returned no slot
\* passes validate_index_save_layout, select_latest_index_save_layout finds
\* no slot and load_index_state reports UDS_INDEX_NOT_SAVED_CLEANLY; and its
\* result is an error if one of the calls failed.
C19_DiscardAll ==
  /\ pc = "discarded"
       => /\ Len(log[2].attempts) = layout.super.max_saves
          /\ \A i \in 1 .. Len(log[2].attempts) : log[2].attempts[i].slot = i - 1
          /\ \A s \in DOMAIN saves :
               validate_index_save_layout(saves[s], layout.nonce) # "UDS_SUCCESS"
          /\ select_latest_index_save_layout(saves, layout.nonce,
                                             layout.super.max_saves) = NoSlot
          /\ (\E i \in 1 .. Len(log[2].attempts) :
                log[2].attempts[i].result # "UDS_SUCCESS")
               => result # "UDS_SUCCESS"
  /\ pc = "loaded" => log[3].result = "UDS_INDEX_NOT_SAVED_CLEANLY"

\* Both slots held a save, the header write of slot 0 failed and did not
\* reach the disk, and slot 1 was invalidated all the same.
C19_Witness ==
  /\ pc = "discarded"
  /\ \A s \in Slots : log[1].fields[s].now > 0
  /\ log[2].attempts[1].result = "EIO"
  /\ log[2].attempts[2].result = "UDS_SUCCESS"
  /\ hdr[0].type = "RH_TYPE_SAVE"
  /\ hdr[1].type = "RH_TYPE_UNSAVED"
  /\ result = "EIO"
  /\ validate_index_save_layout(saves[0], layout.nonce) = "UDS_BAD_STATE"

(***************************************************************************)
(* load_index_state on a layout opened from a store whose slots hold saves *)
(* with sound and unsound index state buffers.                             *)
(***************************************************************************)
StateKinds ==
  {"good", "signature", "version_id", "empty", "short_3", "short_4",
   "short_7", "tag_only"}

\* The index state bytes of a slot header: good as write_index_state_data
\* wrote them, or with another signature or version id, or cut short.
StateBytes(kind, good) ==
  IF kind = "signature" THEN Patch(good, 1, EncodeInt32LE(1))
  ELSE IF kind = "version_id" THEN Patch(good, 5, EncodeInt32LE(300))
  ELSE IF kind = "empty" THEN <<>>
  ELSE IF kind = "short_3" THEN SubSeq(good, 1, 3)
  ELSE IF kind = "short_4" THEN SubSeq(good, 1, 4)
  ELSE IF kind = "short_7" THEN SubSeq(good, 1, 7)
  ELSE IF kind = "tag_only" THEN SubSeq(good, 1, 8)
  ELSE good

LoadFields ==
  [now : 0 .. MaxTime, num_zones : 1 .. MaxZones, state : StateKinds]

\* The header block of slot s: unused (now = 0), or committed by a save at
\* time now, with the index state bytes of kind f.state.
StateHeader(cr, s, f) ==
  LET Damaged(b) ==
        LET st == StateBytes(f.state,
                             SubSeq(b.data, SaveDataSize + 1, Len(b.data)))
        IN  [b EXCEPT !.data = SubSeq(b.data, 1, SaveDataSize) \o st,
                      !.payload = SaveDataSize + Len(st)]
  IN  IF f.now = 0
        THEN write_index_save_layout(cr.slots[s], "ok").block[1]
        ELSE Damaged(write_index_save_layout(
                       SavedSlot(cr, s, f.num_zones, f.now), "ok").block[1])

\* The counters of the caller's index before load_index_state.
CallerIndex ==
  [newest_virtual_chapter |-> 9, oldest_virtual_chapter |-> 8,
   last_save |-> 7, zone_count |-> 1]

\* log[1] tells what the slot headers held; the slots are as
\* load_sub_index_regions reads them from the headers.
InitLoad ==
  /\ \E cr \in {Created}, f \in [Slots -> LoadFields] :
       /\ store = cr.store
       /\ layout = cr.layout
       /\ hdr = [s \in Slots |-> StateHeader(cr, s, f[s])]
       /\ log = <<[op |-> "slots", fields |-> f]>>
  /\ saves = load_sub_index_regions(layout.super, TableSaves, hdr).slots
  /\ fresh = [b \in 0 .. (TotalBlocks - 1) |-> 1]
  /\ index = CallerIndex
  /\ pc = "idle"
  /\ save_slot = NoSlot
  /\ zone = 0
  /\ result = "UDS_SUCCESS"
  /\ preLatest = NoSlot
  /\ crashedAt = "none"
  /\ lastClock = 0
  /\ recent = <<>>

\* load_index_state(layout, index)
LoadStored(io) ==
  /\ pc = "idle"
  /\ pc' = "loaded"
  /\ \E r \in {load_index_state(saves, layout.nonce, layout.super.max_saves,
                                index, io)} :
       /\ saves' = r.slots
       /\ index' = r.index
       /\ result' = r.result
       /\ log' = Append(log,
                   [op |-> "load", result |-> r.result, reads |-> r.reads,
                    load_slot |-> select_latest_index_save_layout(
                                    saves, layout.nonce, layout.super.max_saves)])
  /\ UNCHANGED <<store, layout, hdr, fresh, save_slot, zone, preLatest,
                 crashedAt, lastClock, recent>>

NextLoad == \E io \in {"ok", "read_fail"} : LoadStored(io)

SpecLoad == InitLoad /\ [][NextLoad]_vars

\* The bytes of the index state buffer of the slot load_index_state chose.
LoadedState == saves[log[2].load_slot].index_state_buffer[1].bytes

BeginsWithTag(bytes) ==
  /\ Len(bytes) >= 8
  /\ DecodeInt32LE(SubSeq(bytes, 1, 4)) = SignatureV301
  /\ DecodeInt32LE(SubSeq(bytes, 5, 8)) = VersionIdV301

\* load_index_state found a valid slot whose index state buffer does not
\* begin with the version tag.
LoadedWithoutTag ==
  /\ pc = "loaded"
  /\ log[2].load_slot # NoSlot
  /\ ~ BeginsWithTag(LoadedState)

\* C20 as stated: load_index_state fails with UDS_UNSUPPORTED_VERSION
\* whenever the index state buffer of the latest valid slot does not begin
\* with signature -1 and version id 301; the counters of the caller's index
\* are then unchanged and no sub-region is read.
C20_TagRejected ==
  LoadedWithoutTag
    => /\ result = "UDS_UNSUPPORTED_VERSION"
       /\ index = CallerIndex
       /\ log[2].reads = <<>>

\* C20 amended: when the index state buffer of the latest valid slot does
\* not begin with the tag, load_index_state fails with
\* UDS_UNSUPPORTED_VERSION if the buffer holds at least the 8 bytes of a tag
\* and with UDS_BUFFER_ERROR if it holds fewer; either way the counters of
\* the caller's index are unchanged and no sub-region is read.
C20_TagOrBufferRejected ==
  LoadedWithoutTag
    => /\ result = IF Len(LoadedState) >= 8 THEN "UDS_UNSUPPORTED_VERSION"
                                            ELSE "UDS_BUFFER_ERROR"
       /\ index = CallerIndex
       /\ log[2].reads = <<>>

\* The later of two saves carries version id 300 and the load was refused.
C20_Witness ==
  /\ LoadedWithoutTag
  /\ log[2].load_slot = 1
  /\ log[1].fields[0].now = 1 /\ log[1].fields[0].state = "good"
  /\ log[1].fields[1].now = 2 /\ log[1].fields[1].state = "version_id"
  /\ Len(LoadedState) = 40
  /\ result = "UDS_UNSUPPORTED_VERSION"
  /\ index = CallerIndex

(***************************************************************************)
(* Conversion: update_uds_layout on a version 3 layout, the store opened   *)
(* anew, then save_index_state and load_index_state on the layout opened.  *)
(***************************************************************************)
\* The device a caller opens after update_uds_layout(lvm blocks, offset
\* blocks) and the block of it at which the new header lies: the device that
\* begins lvm blocks further on when the header lies within it, the device
\* as it was otherwise.
DeviceStart(lvm, offset) == IF lvm <= offset THEN lvm ELSE 0
HeaderBlock(lvm, offset) == offset - DeviceStart(lvm, offset)

\* log[1] tells what the slots of the version 3 layout hold.
InitConvert ==
  /\ \E cr \in {Created}, f \in [Slots -> DiscardFields] :
       /\ store = cr.store
       /\ layout = cr.layout
       /\ saves = [s \in Slots |-> DiscardSlot(cr, s, f[s])]
       /\ hdr = [s \in Slots |->
                   write_index_save_layout(saves[s], "ok").block[1]]
       /\ log = <<[op |-> "slots", fields |-> f]>>
  /\ fresh = [b \in 0 .. (TotalBlocks - 1) |-> 1]
  /\ index = CallerIndex
  /\ pc = "version3"
  /\ save_slot = NoSlot
  /\ zone = 0
  /\ result = "UDS_SUCCESS"
  /\ preLatest = NoSlot
  /\ crashedAt = "none"
  /\ lastClock = 0
  /\ recent = <<>>

\* update_uds_layout(layout, config, lvm blocks, offset blocks), after which
\* the layout is freed.
ConvertLayout(lvm, offset, io) ==
  /\ pc = "version3"
  /\ offset <= VolumeBlocks
  /\ \E r \in {update_uds_layout(layout, saves, ModelConfig,
                                 lvm * UDS_BLOCK_SIZE, offset * UDS_BLOCK_SIZE,
                                 store, io)} :
       /\ result' = r.result
       /\ store' = IF r.result = "UDS_SUCCESS"
                     THEN [r.store EXCEPT !.start = DeviceStart(lvm, offset)]
                     ELSE r.store
       /\ pc' = IF r.result = "UDS_SUCCESS" THEN "converted" ELSE "failed"
       /\ log' = Append(log, [op |-> "convert", lvm |-> lvm, offset |-> offset,
                              result |-> r.result])
  /\ layout' = ZeroLayout
  /\ saves' = allocate_single_file_parts
  /\ UNCHANGED <<hdr, fresh, index, save_slot, zone, preLatest, crashedAt,
                 lastClock, recent>>

\* make_uds_index_layout(config, false) with config->offset at the header.
ReopenConverted ==
  /\ pc = "converted"
  /\ \E r \in {make_uds_index_layout(
                 [ModelConfig EXCEPT
                    !.offset = HeaderBlock(log[2].lvm, log[2].offset)
                                 * UDS_BLOCK_SIZE],
                 FALSE, store, hdr, "ok")} :
       /\ result' = r.result
       /\ layout' = r.layout
       /\ saves' = r.slots
       /\ pc' = IF r.result = "UDS_SUCCESS" THEN "idle" ELSE "failed"
       /\ log' = Append(log, [op |-> "open", result |-> r.result])
  /\ UNCHANGED <<store, hdr, fresh, index, save_slot, zone, preLatest,
                 crashedAt, lastClock, recent>>

\* save_index_state(layout, index) with every write succeeding: the index
\* has the counters CountersOf(k) and the clock reads now.
SaveConverted(k, now) ==
  /\ pc = "idle"
  /\ pc' = "saved"
  /\ index' = [index EXCEPT !.newest_virtual_chapter = CountersOf(k)[1],
                            !.oldest_virtual_chapter = CountersOf(k)[2],
                            !.last_save = CountersOf(k)[3]]
  /\ \E slot \in {select_oldest_index_save_layout(saves, layout.nonce,
                                                  layout.super.max_saves)} :
     \E w \in {invalidate_old_save(layout.super, saves[slot], "ok")} :
     \E r \in {instantiate_index_save_layout(w.isl, layout.super, layout.nonce,
                                             index.zone_count, now, "ok")} :
     \E c \in {write_index_save_layout(
                 [r.isl EXCEPT !.index_state_buffer =
                                 <<write_index_state_data(index')>>], "ok")} :
       /\ saves' = [saves EXCEPT ![slot] = c.isl]
       /\ hdr' = WriteSlotBlock(store, hdr,
                                c.isl.header.start_block
                                  - layout.super.start_offset,
                                c.block)
       /\ result' = c.result
       /\ log' = Append(log, [op |-> "save", slot |-> slot, now |-> now,
                              counters |-> CountersOf(k)])
  /\ UNCHANGED <<store, layout, fresh, save_slot, zone, preLatest, crashedAt,
                 lastClock, recent>>

\* load_index_state(layout, index) into an index with other counters.
LoadConverted ==
  /\ pc = "saved"
  /\ pc' = "loaded"
  /\ \E r \in {load_index_state(saves, layout.nonce, layout.super.max_saves,
                                CallerIndex, "ok")} :
       /\ saves' = r.slots
       /\ index' = r.index
       /\ result' = r.result
       /\ log' = Append(log, [op |-> "load", result |-> r.result])
  /\ UNCHANGED <<store, layout, hdr, fresh, save_slot, zone, preLatest,
                 crashedAt, lastClock, recent>>

NextConvert ==
  \/ \E lvm \in 0 .. MaxOffset, offset \in 0 .. MaxOffset,
        io \in {"ok", "header_fail", "config_fail"} :
       ConvertLayout(lvm, offset, io)
  \/ ReopenConverted
  \/ \E k \in 0 .. MaxCounter, now \in 1 .. MaxTime : SaveConverted(k, now)
  \/ LoadConverted

SpecConvert == InitConvert /\ [][NextConvert]_vars

\* The layout opened after the conversion has version 7 and the offsets that
\* update_uds_layout was given.
ConvertedAsAsked ==
  /\ layout.super.version = 7
  /\ layout.super.volume_offset = log[2].offset
  /\ layout.super.start_offset = log[2].lvm

\* C17: after update_uds_layout(config, lvm_offset, offset) on a version 3
\* layout, make_uds_index_layout(config, false) succeeds, and the super block
\* of the layout it returns has version 7, volume_offset = offset / block
\* size and start_offset = lvm_offset / block size; save_index_state
\* followed by load_index_state on that layout succeed and give back the
\* counters saved.
C17_ConvertAndReopen ==
  /\ (Len(log) >= 3 /\ log[2].result = "UDS_SUCCESS")
       => /\ log[3].result = "UDS_SUCCESS"
          /\ ConvertedAsAsked
  /\ pc = "loaded"
       => /\ result = "UDS_SUCCESS"
          /\ Counters(index) = log[4].counters

\* The part that holds: when lvm_offset is not larger than offset, the store
\* opens at the block of the new header with the offsets asked for.
C17_ReopenWhenOrdered ==
  (Len(log) >= 3 /\ log[2].result = "UDS_SUCCESS" /\ log[2].lvm <= log[2].offset)
    => /\ log[3].result = "UDS_SUCCESS"
       /\ ConvertedAsAsked

\* And the counters come back when the save was stamped later than every
\* save the layout held.
C17_RoundTripWhenLater ==
  (pc = "loaded"
     /\ \A s \in Slots : log[1].fields[s].now < log[4].now)
    => /\ result = "UDS_SUCCESS"
       /\ Counters(index) = log[4].counters

(***************************************************************************)
(* Opening a store whose save slot holds an arbitrary region table.        *)
(***************************************************************************)
MaxZoneBlocks == 3

SlotKinds ==
  {"HEADER", "INDEX_PAGE_MAP", "VOLUME_INDEX", "OPEN_CHAPTER", "SCRATCH"}

SlotEnd(s) == SlotStart(s) + SaveBlocks

\* A header, a page map, n zones of z blocks, an open chapter if oc, and a
\* scratch region up to the end of the slot if scratch, each starting where
\* the one before ends.
Carved(start, n, z, oc, scratch) ==
  LET next1 == start + 1 + PageMapBlocks
      next2 == next1 + n * z
      next3 == IF oc THEN next2 + OpenChapterBlocks ELSE next2
  IN  <<Region(start, 1, "HEADER", RL_SOLE_INSTANCE),
        Region(start + 1, PageMapBlocks, "INDEX_PAGE_MAP", RL_SOLE_INSTANCE)>>
        \o [i \in 1 .. n |-> Region(next1 + (i - 1) * z, z, "VOLUME_INDEX", i - 1)]
        \o (IF oc THEN <<Region(next2, OpenChapterBlocks, "OPEN_CHAPTER",
                                RL_SOLE_INSTANCE)>>
            ELSE <<>>)
        \o (IF scratch THEN <<Region(next3, (start + SaveBlocks) - next3,
                                     "SCRATCH", RL_SOLE_INSTANCE)>>
            ELSE <<>>)

\* The carvings drawn; some run past the end of the slot (only without a
\* scratch region, whose length is unsigned).
CarvedTables(start) ==
  LET Fits(n, z, oc) ==
        1 + PageMapBlocks + n * z + (IF oc THEN OpenChapterBlocks ELSE 0)
          <= SaveBlocks
      Shapes == {sh \in [n : 0 .. MaxZones, z : 1 .. MaxZoneBlocks,
                         oc : BOOLEAN, scratch : BOOLEAN] :
                   sh.scratch => Fits(sh.n, sh.z, sh.oc)}
  IN  {Carved(start, sh.n, sh.z, sh.oc, sh.scratch) : sh \in Shapes}

Without(t, i) == SubSeq(t, 1, i - 1) \o SubSeq(t, i + 1, Len(t))

\* A table changed in one place: the kind, instance, start or length of one
\* region, one region left out, or one region more at the end.
Altered(t, start) ==
  UNION {{[t EXCEPT ![i].kind = k] : k \in SlotKinds}
           \cup {[t EXCEPT ![i].instance = inst] :
                   inst \in (0 .. MaxZones) \cup {RL_SOLE_INSTANCE}}
           \cup {[t EXCEPT ![i].start_block = @ + 1],
                 [t EXCEPT ![i].num_blocks = @ + 1],
                 [t EXCEPT ![i].num_blocks = IF @ > 0 THEN @ - 1 ELSE 0],
                 Without(t, i)} :
         i \in 1 .. Len(t)}
    \cup {Append(t, Region(start + SaveBlocks, b, k, RL_SOLE_INSTANCE)) :
            b \in 0 .. 1, k \in {"SCRATCH", "OPEN_CHAPTER"}}

\* The region tables drawn for a slot that starts at start: the empty one,
\* a lone scratch region, the carvings and every table one change away from
\* a carving.
SlotTables(start) ==
  {<<>>}
    \cup {<<Region(start, b, "SCRATCH", RL_SOLE_INSTANCE)>> :
            b \in {0, SaveBlocks}}
    \cup CarvedTables(start)
    \cup UNION {Altered(t, start) : t \in CarvedTables(start)}

\* The header block of slot s after a save with one zone at time 1, with
\* type and table in place of its own.
TableHeader(cr, s, type, t) ==
  [write_index_save_layout(SavedSlot(cr, s, 1, 1), "ok").block[1]
     EXCEPT !.type = type, !.num_regions = Len(t), !.regions = t]

InitSlot ==
  /\ \E cr \in {Created}, s \in Slots,
        type \in {"RH_TYPE_SAVE", "RH_TYPE_UNSAVED"} :
     \E t \in SlotTables(SlotStart(s)) :
       /\ store = cr.store
       /\ layout = ZeroLayout
       /\ saves = allocate_single_file_parts
       /\ hdr = [u \in Slots |->
                   IF u = s THEN TableHeader(cr, s, type, t)
                   ELSE write_index_save_layout(SavedSlot(cr, u, 1, 1),
                                                "ok").block[1]]
       /\ log = <<[op |-> "table", slot |-> s, type |-> type, regions |-> t]>>
  /\ fresh = [b \in 0 .. (TotalBlocks - 1) |-> 1]
  /\ \E z \in 1 .. MaxZones : index = [CallerIndex EXCEPT !.zone_count = z]
  /\ pc = "closed"
  /\ save_slot = NoSlot
  /\ zone = 0
  /\ result = "UDS_SUCCESS"
  /\ preLatest = NoSlot
  /\ crashedAt = "none"
  /\ lastClock = 0
  /\ recent = <<>>

\* make_uds_index_layout(config, new_layout = false); the log keeps the heap
\* blocks the call left allocated.
OpenSlots ==
  /\ pc = "closed"
  /\ \E r \in {make_uds_index_layout(ModelConfig, FALSE, store, hdr, "ok")} :
       /\ result' = r.result
       /\ layout' = r.layout
       /\ saves' = r.slots
       /\ pc' = IF r.result = "UDS_SUCCESS" THEN "idle" ELSE "failed"
       /\ log' = Append(log, [op |-> "open", result |-> r.result,
                              live |-> r.live])
  /\ UNCHANGED <<store, hdr, fresh, index, save_slot, zone, preLatest,
                 crashedAt, lastClock, recent>>

NextSlot ==
  \/ OpenSlots
  \/ \E now \in 1 .. MaxTime : SaveConverted(1, now)

SpecSlot == InitSlot /\ [][NextSlot]_vars

\* The table drawn for the slot is one that reconstruct_index_save takes for
\* a slot never written: no region, or a lone SCRATCH region.
DegenerateTable ==
  \/ Len(log[1].regions) = 0
  \/ Len(log[1].regions) = 1 /\ log[1].regions[1].kind = "SCRATCH"

\* The slot drawn fails validate_index_save_layout, and a save that selected
\* it has succeeded.
UnusableUntilSaved ==
  /\ pc = "idle"
       => /\ saves[log[1].slot].num_zones = 0
          /\ validate_index_save_layout(saves[log[1].slot], layout.nonce)
               # "UDS_SUCCESS"
  /\ (pc = "saved" /\ log[3].slot = log[1].slot) => result = "UDS_SUCCESS"

\* C21: when the region table of a save slot on disk has no region, or one
\* region of kind SCRATCH, the open succeeds and leaves the slot with zero
\* zones and save type NO_SAVE, whether the header type was SAVE or UNSAVED;
\* the slot fails validate_index_save_layout, and a following save that
\* selects it succeeds.
C21_DegenerateSlotNoSave ==
  (Len(log) >= 2 /\ DegenerateTable)
    => /\ log[2].result = "UDS_SUCCESS"
       /\ pc = "idle" => saves[log[1].slot].save_type = "NO_SAVE"
       /\ UnusableUntilSaved

\* The part that holds whatever the header type: the open succeeds, the slot
\* has zero zones and is not valid, and a save that selects it succeeds.
C21_DegenerateSlotUnusable ==
  (Len(log) >= 2 /\ DegenerateTable)
    => /\ log[2].result = "UDS_SUCCESS"
       /\ UnusableUntilSaved

\* With a header of type UNSAVED the slot is NO_SAVE as well.
C21_UnsavedHeaderNoSave ==
  (pc = "idle" /\ DegenerateTable /\ log[1].type = "RH_TYPE_UNSAVED")
    => saves[log[1].slot].save_type = "NO_SAVE"

\* A save went to a slot that was opened from a degenerate table under a
\* header of type SAVE.
C21_Witness ==
  /\ pc = "saved"
  /\ DegenerateTable
  /\ log[1].type = "RH_TYPE_SAVE"
  /\ log[3].slot = log[1].slot

\* The regions of t are, each starting where the one before ends and the
\* first at start: HEADER of 1 block, INDEX_PAGE_MAP, n VOLUME_INDEX regions
\* with instances 0 .. n - 1, OPEN_CHAPTER if and only if oc, then SCRATCH if
\* sc (the regions that are not zones have the sole instance).
ShapedAs(t, start, n, oc, sc) ==
  LET Kind(i) == IF i = 1 THEN "HEADER"
                 ELSE IF i = 2 THEN "INDEX_PAGE_MAP"
                 ELSE IF i <= 2 + n THEN "VOLUME_INDEX"
                 ELSE IF oc /\ i = 3 + n THEN "OPEN_CHAPTER"
                 ELSE "SCRATCH"
  IN  /\ Len(t) = 2 + n + (IF oc THEN 1 ELSE 0) + (IF sc THEN 1 ELSE 0)
      /\ \A i \in 1 .. Len(t) :
           /\ t[i].kind = Kind(i)
           /\ t[i].instance = IF Kind(i) = "VOLUME_INDEX" THEN i - 3
                              ELSE RL_SOLE_INSTANCE
           /\ t[i].start_block = IF i = 1 THEN start
                                 ELSE t[i - 1].start_block + t[i - 1].num_blocks
      /\ t[1].num_blocks = 1

LastBlock(t) == t[Len(t)].start_block + t[Len(t)].num_blocks

\* The table is as C22 describes for a header of this type in a slot from
\* start to end: with a SCRATCH region the regions end at the slot's end,
\* without one they leave a residue of zero or more blocks.
WellFormedTable(t, type, start, end) ==
  \E n \in 0 .. Len(t), sc \in BOOLEAN :
    /\ ShapedAs(t, start, n, type = "RH_TYPE_SAVE", sc)
    /\ IF sc THEN LastBlock(t) = end ELSE LastBlock(t) <= end

TableDrawnWellFormed ==
  WellFormedTable(log[1].regions, log[1].type, SlotStart(log[1].slot),
                  SlotEnd(log[1].slot))

\* C22: reconstruct_index_save accepts a table that is not degenerate exactly
\* when its regions are, contiguously from the slot's start, HEADER of 1
\* block, INDEX_PAGE_MAP, VOLUME_INDEX with instances 0, 1, ..., n - 1,
\* OPEN_CHAPTER if and only if the header type is SAVE, and an optional
\* SCRATCH, together ending at the slot's end (a missing SCRATCH being made
\* of the residual blocks); every other table fails with
\* UDS_UNEXPECTED_RESULT.
C22_AcceptedIffWellFormed ==
  (Len(log) >= 2 /\ ~DegenerateTable)
    => /\ log[2].result = "UDS_SUCCESS" <=> TableDrawnWellFormed
       /\ ~TableDrawnWellFormed => log[2].result = "UDS_UNEXPECTED_RESULT"

\* As WellFormedTable, but for the residue: a table without SCRATCH may end
\* anywhere, beyond the slot's end too.
ShapedTable(t, type, start, end) ==
  \E n \in 0 .. Len(t), sc \in BOOLEAN :
    /\ ShapedAs(t, start, n, type = "RH_TYPE_SAVE", sc)
    /\ sc => LastBlock(t) = end

TableDrawnShaped ==
  ShapedTable(log[1].regions, log[1].type, SlotStart(log[1].slot),
              SlotEnd(log[1].slot))

\* What the code does: it accepts exactly the tables of that shape, those
\* that run past the slot's end without a SCRATCH region included, and
\* fails every other with UDS_UNEXPECTED_RESULT.
C22_AcceptedIffShaped ==
  (Len(log) >= 2 /\ ~DegenerateTable)
    => /\ log[2].result = "UDS_SUCCESS" <=> TableDrawnShaped
       /\ ~TableDrawnShaped => log[2].result = "UDS_UNEXPECTED_RESULT"

\* Tables of each sort were opened: accepted, rejected, and accepted though
\* they run past the slot's end.
C22_Witness ==
  /\ Len(log) >= 2
  /\ ~DegenerateTable
  /\ log[2].result = "UDS_SUCCESS"
  /\ ~TableDrawnWellFormed

\* What reconstruct_index_save returns for the slot drawn: the slot is as
\* load_super_block left it, with the state buffer load_index_save read.
SlotReconstructed ==
  LET Read(s, d) ==
        reconstruct_index_save(
          [TableSaves[s] EXCEPT !.index_state_buffer = d.buffer],
          d.save_data, generate_super_block_data, hdr[s])
  IN  Read(log[1].slot,
           read_index_save_data(hdr[log[1].slot].data, hdr[log[1].slot].payload))

\* The expectations a caller may put to the iterator.
Expectations ==
  [expect : BOOLEAN, num_blocks : 0 .. 1, kind : SlotKinds,
   instance : (0 .. MaxZones) \cup {RL_SOLE_INSTANCE}]

\* expect_layout on iterator it returns false and leaves it as it is,
\* whatever is expected.
Inert(it) ==
  \A x \in Expectations :
    expect_layout(x.expect, it, x.num_blocks, x.kind, x.instance)
      = [ok |-> FALSE, iter |-> it]

\* Iterator it with its next block where its next region starts, so that
\* nothing but the recorded result stands between the region and an
\* expectation that describes it.
AtNextRegion(it) ==
  IF it.next_region <= Len(it.regions)
    THEN [it EXCEPT !.next_block = it.regions[it.next_region].start_block]
    ELSE it

\* The descriptors of slot isl that expect_layout fills are those of the
\* first k regions of table t, in the order the code expects them; the
\* others are as they were allocated.
CopiedUpTo(isl, t, k) ==
  LET n == isl.num_zones
      Unset == Region(0, 0, "ZERO", 0)
  IN  /\ isl.header = IF k >= 1 THEN t[1] ELSE TableSaves[0].header
      /\ isl.index_page_map
           = IF k >= 2 THEN t[2] ELSE TableSaves[0].index_page_map
      /\ \A z \in 1 .. n :
           isl.volume_index_zones[z] = IF k >= 2 + z THEN t[2 + z] ELSE Unset
      /\ isl.open_chapter # <<>>
           => isl.open_chapter[1] = IF k >= 3 + n THEN t[3 + n] ELSE Unset

\* C23: once an expectation has failed and the iterator holds
\* UDS_UNEXPECTED_RESULT, every later expect_layout returns false, consumes
\* no region, copies no descriptor into the layout and leaves the result
\* recorded in place; the result returned in the end is the first error
\* recorded.
C23_FailedIteratorInert ==
  Len(log) >= 2 =>
    \E r \in {SlotReconstructed} :
      r.iter.result # "UDS_SUCCESS"
        => /\ Inert(r.iter)
           /\ Inert(AtNextRegion(r.iter))
           /\ Inert([r.iter EXCEPT !.result = "UDS_CORRUPT_DATA"])
           /\ iter_error([r.iter EXCEPT !.result = "UDS_CORRUPT_DATA"])
                = [r.iter EXCEPT !.result = "UDS_CORRUPT_DATA"]
           /\ CopiedUpTo(r.isl, r.iter.regions, r.iter.next_region - 1)
           /\ r.result = r.iter.result
           /\ log[2].result = r.iter.result

\* The iterator failed on the first expectation, at a page map region with
\* regions after it: the expectation put to it next describes that region.
C23_Witness ==
  /\ Len(log) >= 2
  /\ \E r \in {SlotReconstructed} :
       /\ r.iter.result = "UDS_UNEXPECTED_RESULT"
       /\ r.iter.next_region = 1
       /\ Len(r.iter.regions) > 1
       /\ r.iter.regions[1].kind = "INDEX_PAGE_MAP"

\* C24: when make_uds_index_layout(config, new_layout = false) fails, also
\* on a slot whose table fails reconstruction after the slot's zone
\* descriptors or open chapter descriptor were allocated, every heap block
\* allocated during the call has been freed when it returns.
C24_FailedOpenFreesAll ==
  (Len(log) >= 2 /\ log[2].result # "UDS_SUCCESS") => log[2].live = {}

\* What the code frees: everything but the zone descriptors and the open
\* chapter descriptor of the slot that failed; the slots loaded before it
\* are freed.
C24_OnlyFailedSlotHeld ==
  (Len(log) >= 2 /\ log[2].result # "UDS_SUCCESS")
    => log[2].live \subseteq
         {Allocation(p, log[1].slot) :
            p \in {"volume_index_zones", "open_chapter"}}

\* The sub-regions of a slot in the order of the blocks.
SubRegions(isl) ==
  <<isl.header, isl.index_page_map>>
    \o isl.volume_index_zones \o isl.open_chapter \o <<isl.free_space>>

RECURSIVE SumBlocks(_)
SumBlocks(t) == IF t = <<>> THEN 0 ELSE t[1].num_blocks + SumBlocks(Tail(t))

\* The slot is carved for num_zones zones as C30 says.
CarvedForSave(isl, super, num_zones) ==
  LET t == SubRegions(isl)
      start == isl.index_save.start_block
      zone_blocks == (isl.index_save.num_blocks - 1 - super.page_map_blocks
                        - super.open_chapter_blocks) \div num_zones
  IN  /\ isl.num_zones = num_zones
      /\ Len(t) = num_zones + 4
      /\ ShapedAs(t, start, num_zones, TRUE, TRUE)
      /\ t[2].num_blocks = super.page_map_blocks
      /\ \A z \in 1 .. num_zones : t[2 + z].num_blocks = zone_blocks
      /\ t[3 + num_zones].num_blocks = super.open_chapter_blocks
      /\ t[4 + num_zones].num_blocks
           = isl.index_save.num_blocks - 1 - super.page_map_blocks
               - num_zones * zone_blocks - super.open_chapter_blocks
      /\ \A i \in 1 .. Len(t) :
           /\ t[i].num_blocks >= 0
           /\ t[i].start_block >= start
           /\ t[i].start_block + t[i].num_blocks
                <= start + isl.index_save.num_blocks
      /\ SumBlocks(t) = isl.index_save.num_blocks

\* C30: after instantiate_index_save_layout(slot, num_zones) with num_zones
\* at least 1, the slot's sub-regions are, contiguously and in this order,
\* HEADER (1 block), INDEX_PAGE_MAP (page_map_blocks), num_zones VOLUME_INDEX
\* regions of floor((slot blocks - 1 - page_map_blocks - open_chapter_blocks)
\* / num_zones) blocks with instances 0 .. num_zones - 1, OPEN_CHAPTER
\* (open_chapter_blocks) and SCRATCH (the remainder); all lie inside the slot
\* and their lengths add up to the slot's num_blocks, which is the
\* region_blocks written in the slot's header.
C30_InstantiatedCarving ==
  pc = "saved"
    => /\ CarvedForSave(saves[log[3].slot], layout.super, index.zone_count)
       /\ hdr[log[3].slot].region_blocks
            = saves[log[3].slot].index_save.num_blocks

\* A save for two zones went to a slot that was opened from a table with
\* another number of zones.
C30_Witness ==
  /\ pc = "saved"
  /\ index.zone_count = 2
  /\ log[3].slot = log[1].slot
  /\ saves[log[3].slot].free_space.num_blocks > 0

(***************************************************************************)
(* The index page map (index-page-map.c).                                  *)
(***************************************************************************)
ChaptersPerVolume == 2
IndexPagesPerChapter == 3
DeltaListsPerChapter == 3
MaxVirtualChapter == 2
MaxName == 5
UINT16_MAX == 65535
INDEX_PAGE_MAP_MAGIC_LENGTH == 8

\* "ALBIPM02"
INDEX_PAGE_MAP_MAGIC == <<65, 76, 66, 73, 80, 77, 48, 50>>

Geometry ==
  [chapters_per_volume |-> ChaptersPerVolume,
   index_pages_per_chapter |-> IndexPagesPerChapter,
   delta_lists_per_chapter |-> DeltaListsPerChapter]

num_entries(geometry) ==
  geometry.chapters_per_volume * (geometry.index_pages_per_chapter - 1)

\* make_index_page_map: entries[slot + 1] is the C array's entries[slot];
\* UDS_ALLOCATE zeroes the memory.
make_index_page_map(geometry) ==
  IF geometry.delta_lists_per_chapter - 1 > UINT16_MAX
    THEN [result |-> "UDS_BAD_STATE", map |-> <<>>]
    ELSE [result |-> "UDS_SUCCESS",
          map |-> <<[geometry |-> geometry, last_update |-> 0,
                     entries |-> Zeros(num_entries(geometry))]>>]

\* update_index_page_map with the slot of page index_page_number of chapter 0
\* whatever the chapter.
update_without_chapter_offset(map, virtual_chapter_number, chapter_number, index_page_number, delta_list_number) ==
  LET geometry == map.geometry
      map1 == [map EXCEPT !.last_update = virtual_chapter_number]
  IN  IF chapter_number >= geometry.chapters_per_volume
             \/ index_page_number >= geometry.index_pages_per_chapter
             \/ delta_list_number >= geometry.delta_lists_per_chapter
        THEN [result |-> "UDS_INVALID_ARGUMENT", map |-> map1]
      ELSE IF index_page_number = geometry.index_pages_per_chapter - 1
        THEN [result |-> "UDS_SUCCESS", map |-> map1]
      ELSE [result |-> "UDS_SUCCESS",
            map |-> [map1 EXCEPT !.entries[index_page_number + 1] =
                                   delta_list_number % (UINT16_MAX + 1)]]

\* update_index_page_map without the return for the last page of a chapter.
update_writing_last_page(map, virtual_chapter_number, chapter_number, index_page_number, delta_list_number) ==
  LET geometry == map.geometry
      map1 == [map EXCEPT !.last_update = virtual_chapter_number]
      slot == chapter_number * (geometry.index_pages_per_chapter - 1)
                + index_page_number
  IN  IF chapter_number >= geometry.chapters_per_volume
             \/ index_page_number >= geometry.index_pages_per_chapter
             \/ delta_list_number >= geometry.delta_lists_per_chapter
        THEN [result |-> "UDS_INVALID_ARGUMENT", map |-> map1]
      ELSE [result |-> "UDS_SUCCESS",
            map |-> [map1 EXCEPT
                       !.entries = [i \in 1 .. Len(map.entries) |->
                                      IF i = slot + 1
                                        THEN delta_list_number % (UINT16_MAX + 1)
                                        ELSE map.entries[i]]]]

\* update_index_page_map without the test of the delta list number.
update_without_list_test(map, virtual_chapter_number, chapter_number, index_page_number, delta_list_number) ==
  LET geometry == map.geometry
      map1 == [map EXCEPT !.last_update = virtual_chapter_number]
      slot == chapter_number * (geometry.index_pages_per_chapter - 1)
                + index_page_number
  IN  IF chapter_number >= geometry.chapters_per_volume
             \/ index_page_number >= geometry.index_pages_per_chapter
        THEN [result |-> "UDS_INVALID_ARGUMENT", map |-> map1]
      ELSE IF index_page_number = geometry.index_pages_per_chapter - 1
        THEN [result |-> "UDS_SUCCESS", map |-> map1]
      ELSE [result |-> "UDS_SUCCESS",
            map |-> [map1 EXCEPT !.entries[slot + 1] =
                                   delta_list_number % (UINT16_MAX + 1)]]

\* update_index_page_map: last_update is assigned before the arguments are
\* tested; the entry is the delta list number converted to 16 bits.
update_index_page_map(map, virtual_chapter_number, chapter_number, index_page_number, delta_list_number) ==
  LET geometry == map.geometry
      map1 == [map EXCEPT !.last_update = virtual_chapter_number]
      slot == chapter_number * (geometry.index_pages_per_chapter - 1)
                + index_page_number
  IN  IF chapter_number >= geometry.chapters_per_volume
        THEN [result |-> "UDS_INVALID_ARGUMENT", map |-> map1]
      ELSE IF index_page_number >= geometry.index_pages_per_chapter
        THEN [result |-> "UDS_INVALID_ARGUMENT", map |-> map1]
      ELSE IF delta_list_number >= geometry.delta_lists_per_chapter
        THEN [result |-> "UDS_INVALID_ARGUMENT", map |-> map1]
      ELSE IF index_page_number = geometry.index_pages_per_chapter - 1
        THEN [result |-> "UDS_SUCCESS", map |-> map1]
      ELSE [result |-> "UDS_SUCCESS",
            map |-> [map1 EXCEPT !.entries[slot + 1] =
                                   delta_list_number % (UINT16_MAX + 1)]]

\* hash_to_chapter_delta_list (hash-utils.h): a delta list of the chapter.
hash_to_chapter_delta_list(name, geometry) ==
  name % geometry.delta_lists_per_chapter

\* The loop stopping only at an entry larger than the delta list number.
RECURSIVE FindLoopStrict(_, _, _, _, _)
FindLoopStrict(map, delta_list_number, slot, limit, index_page_number) ==
  IF slot < limit /\ ~(delta_list_number < map.entries[slot + 1])
    THEN FindLoopStrict(map, delta_list_number, slot + 1, limit,
                        index_page_number + 1)
    ELSE index_page_number

\* The loop of find_index_page_number: the page at which it stops.
RECURSIVE FindLoop(_, _, _, _, _)
FindLoop(map, delta_list_number, slot, limit, index_page_number) ==
  IF slot < limit /\ ~(delta_list_number <= map.entries[slot + 1])
    THEN FindLoop(map, delta_list_number, slot + 1, limit,
                  index_page_number + 1)
    ELSE index_page_number

\* find_index_page_number; page is what *index_page_number_ptr holds, NoSlot
\* when it was not written.
find_index_page_number(map, name, chapter_number) ==
  LET geometry == map.geometry
      slot == chapter_number * (geometry.index_pages_per_chapter - 1)
      Found(page) ==
        IF page < geometry.index_pages_per_chapter
          THEN [result |-> "UDS_SUCCESS", page |-> page]
          ELSE [result |-> "UDS_ASSERTION_FAILED", page |-> NoSlot]
  IN  IF chapter_number >= geometry.chapters_per_volume
        THEN [result |-> "UDS_INVALID_ARGUMENT", page |-> NoSlot]
        ELSE Found(FindLoop(map, hash_to_chapter_delta_list(name, geometry),
                            slot,
                            slot + (geometry.index_pages_per_chapter - 1), 0))

\* get_list_number_bounds reading the entries of chapter 0 whatever the
\* chapter.
bounds_without_chapter_offset(map, chapter_number, index_page_number) ==
  LET geometry == map.geometry
  IN  IF ~(chapter_number < geometry.chapters_per_volume)
             \/ ~(index_page_number < geometry.index_pages_per_chapter)
        THEN [result |-> "UDS_ASSERTION_FAILED", lowest_list |-> NoSlot,
              highest_list |-> NoSlot]
        ELSE [result |-> "UDS_SUCCESS",
              lowest_list |->
                IF index_page_number = 0 THEN 0
                ELSE map.entries[index_page_number - 1 + 1] + 1,
              highest_list |->
                IF index_page_number = geometry.index_pages_per_chapter - 1
                  THEN geometry.delta_lists_per_chapter - 1
                  ELSE map.entries[index_page_number + 1]]

\* get_list_number_bounds; the bounds are NoSlot when they were not written.
get_list_number_bounds(map, chapter_number, index_page_number) ==
  LET geometry == map.geometry
      slot == chapter_number * (geometry.index_pages_per_chapter - 1)
  IN  IF ~(chapter_number < geometry.chapters_per_volume)
             \/ ~(index_page_number < geometry.index_pages_per_chapter)
        THEN [result |-> "UDS_ASSERTION_FAILED", lowest_list |-> NoSlot,
              highest_list |-> NoSlot]
        ELSE [result |-> "UDS_SUCCESS",
              lowest_list |->
                IF index_page_number = 0 THEN 0
                ELSE map.entries[slot + index_page_number - 1 + 1] + 1,
              highest_list |->
                IF index_page_number = geometry.index_pages_per_chapter - 1
                  THEN geometry.delta_lists_per_chapter - 1
                  ELSE map.entries[slot + index_page_number + 1]]

\* put_uint16_les_into_buffer and get_uint16_les_from_buffer.
RECURSIVE EncodeUint16LEs(_)
EncodeUint16LEs(entries) ==
  IF entries = <<>> THEN <<>>
  ELSE EncodeLE(Head(entries), 2) \o EncodeUint16LEs(Tail(entries))

DecodeUint16LEs(bytes, count) ==
  [i \in 1 .. count |-> DecodeLE(SubSeq(bytes, 2 * i - 1, 2 * i))]

\* write_index_page_map on a writer that takes every write: the bytes that
\* reach the region.
write_index_page_map(map) ==
  [result |-> "UDS_SUCCESS",
   bytes |-> INDEX_PAGE_MAP_MAGIC \o EncodeLE(map.last_update, 8)
               \o EncodeUint16LEs(map.entries)]

decode_index_page_map(bytes, map) ==
  [map EXCEPT !.last_update = DecodeLE(SubSeq(bytes, 1, 8)),
              !.entries = DecodeUint16LEs(SubSeq(bytes, 9, Len(bytes)),
                                          num_entries(map.geometry))]

\* read_index_page_map without verify_buffered_data.
read_without_magic_test(map, bytes) ==
  LET size == 8 + 2 * num_entries(map.geometry)
  IN  [result |-> "UDS_SUCCESS",
       map |-> decode_index_page_map(
                 SubSeq(bytes, INDEX_PAGE_MAP_MAGIC_LENGTH + 1,
                        INDEX_PAGE_MAP_MAGIC_LENGTH + size), map)]

\* read_index_page_map from a reader that delivers bytes.
\* verify_buffered_data (buffered-reader.c) compares the next bytes of the
\* reader with the magic and gives UDS_CORRUPT_DATA when they differ.
read_index_page_map(map, bytes) ==
  LET size == 8 + 2 * num_entries(map.geometry)
  IN  IF SubSeq(bytes, 1, INDEX_PAGE_MAP_MAGIC_LENGTH) # INDEX_PAGE_MAP_MAGIC
        THEN [result |-> "UDS_CORRUPT_DATA", map |-> map]
        ELSE [result |-> "UDS_SUCCESS",
              map |-> decode_index_page_map(
                        SubSeq(bytes, INDEX_PAGE_MAP_MAGIC_LENGTH + 1,
                               INDEX_PAGE_MAP_MAGIC_LENGTH + size), map)]

\* The map is in index, the bytes of the saved map in recent.  A query
\* (find_index_page_number, get_list_number_bounds) ends the behaviour, as
\* it changes nothing.
InitPageMap ==
  /\ index = make_index_page_map(Geometry).map[1]
  /\ recent = <<>>
  /\ log = <<>>
  /\ pc = "idle"
  /\ result = "UDS_SUCCESS"
  /\ store = EmptyStore(0)
  /\ layout = ZeroLayout
  /\ saves = allocate_single_file_parts
  /\ hdr = [s \in Slots |-> NoBlock]
  /\ fresh = [b \in 0 .. (TotalBlocks - 1) |-> 0]
  /\ save_slot = NoSlot
  /\ zone = 0
  /\ preLatest = NoSlot
  /\ crashedAt = "none"
  /\ lastClock = 0

PageMapOthers ==
  <<store, layout, saves, hdr, fresh, save_slot, zone, preLatest, crashedAt,
    lastClock>>

\* update_index_page_map; the log keeps the call and the entries before it.
UpdateMap(vchap, chap, page, list) ==
  /\ pc = "idle"
  /\ \E r \in {update_index_page_map(index, vchap, chap, page, list)} :
       /\ index' = r.map
       /\ result' = r.result
  /\ log' = <<[op |-> "update", vchap |-> vchap, chap |-> chap, page |-> page,
               list |-> list, before |-> index.entries]>>
  /\ UNCHANGED <<pc, recent>>
  /\ UNCHANGED PageMapOthers

\* get_list_number_bounds for the page of the update just made.
ListBounds ==
  /\ pc = "idle"
  /\ Len(log) = 1
  /\ log[1].op = "update"
  /\ \E r \in {get_list_number_bounds(index, log[1].chap, log[1].page)} :
       /\ result' = r.result
       /\ log' = Append(log, [op |-> "bounds", update |-> result,
                              lowest_list |-> r.lowest_list,
                              highest_list |-> r.highest_list])
  /\ pc' = "asked"
  /\ UNCHANGED <<index, recent>>
  /\ UNCHANGED PageMapOthers

\* find_index_page_number
FindPage(name, chap) ==
  /\ pc = "idle"
  /\ \E r \in {find_index_page_number(index, name, chap)} :
       /\ result' = r.result
       /\ log' = <<[op |-> "find", name |-> name, chap |-> chap,
                    page |-> r.page]>>
  /\ pc' = "asked"
  /\ UNCHANGED <<index, recent>>
  /\ UNCHANGED PageMapOthers

\* write_index_page_map; the log keeps the map written.
WriteMap ==
  /\ pc = "idle"
  /\ pc' = "written"
  /\ \E w \in {write_index_page_map(index)} :
       /\ recent' = w.bytes
       /\ result' = w.result
  /\ log' = <<[op |-> "write", last_update |-> index.last_update,
               entries |-> index.entries]>>
  /\ UNCHANGED index
  /\ UNCHANGED PageMapOthers

\* One of the first bytes of the saved map is damaged.
DamageMagic(i) ==
  /\ pc = "written"
  /\ pc' = "damaged"
  /\ recent' = [recent EXCEPT ![i] = (@ + 1) % 256]
  /\ UNCHANGED <<index, log, result>>
  /\ UNCHANGED PageMapOthers

\* The maps read into: a new one, and one whose entries are all the last
\* delta list.
ReadTargets ==
  {make_index_page_map(Geometry).map[1],
   [geometry |-> Geometry, last_update |-> MaxVirtualChapter + 1,
    entries |-> [i \in 1 .. num_entries(Geometry) |-> DeltaListsPerChapter - 1]]}

\* read_index_page_map into target.
ReadMap(target) ==
  /\ pc \in {"written", "damaged"}
  /\ pc' = "read"
  /\ \E r \in {read_index_page_map(target, recent)} :
       /\ index' = r.map
       /\ result' = r.result
  /\ log' = Append(log, [op |-> "read", target |-> target])
  /\ UNCHANGED recent
  /\ UNCHANGED PageMapOthers

NextPageMap ==
  \/ \E vchap \in 0 .. MaxVirtualChapter, chap \in 0 .. ChaptersPerVolume,
        page \in 0 .. IndexPagesPerChapter, list \in 0 .. DeltaListsPerChapter :
       UpdateMap(vchap, chap, page, list)
  \/ ListBounds
  \/ \E name \in 0 .. MaxName, chap \in 0 .. ChaptersPerVolume :
       FindPage(name, chap)
  \/ WriteMap
  \/ \E i \in 1 .. INDEX_PAGE_MAP_MAGIC_LENGTH : DamageMagic(i)
  \/ \E target \in ReadTargets : ReadMap(target)

SpecPageMap == InitPageMap /\ [][NextPageMap]_vars

\* The arguments of the update in log[1] are in range.
UpdateInRange ==
  /\ log[1].chap < ChaptersPerVolume
  /\ log[1].page < IndexPagesPerChapter
  /\ log[1].list < DeltaListsPerChapter

\* get_list_number_bounds was asked after an update with arguments in range.
BoundsAfterUpdate ==
  /\ pc = "asked"
  /\ log[1].op = "update"
  /\ UpdateInRange

\* The entry stored for page page of chapter chap.
StoredEntry(map, chap, page) ==
  map.entries[chap * (IndexPagesPerChapter - 1) + page + 1]

\* C25: for every map and every (vchap, chap, page, list) in range, update
\* followed by bounds for (chap, page) gives lowest_list <= list <=
\* highest_list.
C25_ListWithinBounds ==
  BoundsAfterUpdate
    => /\ result = "UDS_SUCCESS"
       /\ log[2].lowest_list <= log[1].list
       /\ log[1].list <= log[2].highest_list

\* What holds: highest_list is list itself, or the last delta list of the
\* chapter for the last page, and lowest_list is at most list exactly when
\* the page is the first or the entry of the page before is smaller than
\* list.
C25_BoundsAfterUpdate ==
  BoundsAfterUpdate
    => /\ log[2].update = "UDS_SUCCESS"
       /\ result = "UDS_SUCCESS"
       /\ log[2].highest_list
            = IF log[1].page = IndexPagesPerChapter - 1
                THEN DeltaListsPerChapter - 1 ELSE log[1].list
       /\ log[1].list <= log[2].highest_list
       /\ log[2].lowest_list <= log[1].list
            <=> \/ log[1].page = 0
                \/ StoredEntry(index, log[1].chap, log[1].page - 1)
                     < log[1].list

\* Bounds were asked for a page of the second chapter that is neither its
\* first nor its last, after an update of that page.
C25_Witness ==
  /\ BoundsAfterUpdate
  /\ log[1].chap = 1
  /\ log[1].page = 1
  /\ log[1].list = 2
  /\ log[2].lowest_list = 2

\* The pages of chapter chap, but the last, whose entry is at least d.
PagesFrom(map, chap, d) ==
  {p \in 0 .. (IndexPagesPerChapter - 2) : StoredEntry(map, chap, p) >= d}

\* C26: find_index_page_number for a chapter below chapters_per_volume, d
\* being the delta list of the name and P the index pages per chapter,
\* gives the smallest page below P - 1 whose entry for the chapter is at
\* least d, and P - 1 when there is none; the page is always below P.
C26_FindPage ==
  (pc = "asked" /\ log[1].op = "find" /\ log[1].chap < ChaptersPerVolume)
    => \E found \in {PagesFrom(index, log[1].chap,
                               hash_to_chapter_delta_list(log[1].name,
                                                          Geometry))} :
         /\ result = "UDS_SUCCESS"
         /\ log[1].page < IndexPagesPerChapter
         /\ found = {} => log[1].page = IndexPagesPerChapter - 1
         /\ found # {}
              => /\ log[1].page \in found
                 /\ \A p \in found : log[1].page <= p

\* A name was looked up whose delta list equals the entry of the second
\* page and is above the entry of the first.
C26_Witness ==
  /\ pc = "asked"
  /\ log[1].op = "find"
  /\ log[1].chap = 1
  /\ log[1].page = 1
  /\ StoredEntry(index, 1, 1)
       = hash_to_chapter_delta_list(log[1].name, Geometry)
  /\ StoredEntry(index, 1, 0) < StoredEntry(index, 1, 1)

\* The last operation was an update, and these were its arguments.
Updated == Len(log) >= 1 /\ log[1].op = "update"

\* C27: update_index_page_map for the last index page of a chapter, with
\* chapter and list in range, returns success and leaves every entry as it
\* was; bounds for that page still gives highest_list =
\* delta_lists_per_chapter - 1.
C27_LastPageImplied ==
  (Updated /\ UpdateInRange /\ log[1].page = IndexPagesPerChapter - 1)
    => /\ (pc = "idle" => result = "UDS_SUCCESS")
       /\ index.entries = log[1].before
       /\ get_list_number_bounds(index, log[1].chap, log[1].page).highest_list
            = DeltaListsPerChapter - 1
       /\ pc = "asked"
            => /\ log[2].update = "UDS_SUCCESS"
               /\ log[2].highest_list = DeltaListsPerChapter - 1

\* Bounds were asked after an update of the last page of the first chapter,
\* in a map whose entries are not all zero.
C27_Witness ==
  /\ pc = "asked"
  /\ Updated
  /\ UpdateInRange
  /\ log[1].chap = 0
  /\ log[1].page = IndexPagesPerChapter - 1
  /\ log[1].list = 1
  /\ \E i \in 1 .. Len(index.entries) : index.entries[i] # 0

\* C28: update_index_page_map returns UDS_INVALID_ARGUMENT if and only if
\* chap >= chapters_per_volume, page >= index_pages_per_chapter or list >=
\* delta_lists_per_chapter; no entry is changed then, and last_update is
\* vchap all the same.
C28_InvalidArgument ==
  (Updated /\ pc = "idle")
    => /\ result = "UDS_INVALID_ARGUMENT" <=> ~UpdateInRange
       /\ result = "UDS_INVALID_ARGUMENT"
            => /\ index.entries = log[1].before
               /\ index.last_update = log[1].vchap

\* An update with only the delta list out of range was refused, in a map
\* that had another last_update before.
C28_Witness ==
  /\ Updated
  /\ pc = "idle"
  /\ result = "UDS_INVALID_ARGUMENT"
  /\ log[1].chap < ChaptersPerVolume
  /\ log[1].page < IndexPagesPerChapter - 1
  /\ log[1].list = DeltaListsPerChapter
  /\ log[1].vchap = 2
  /\ \E i \in 1 .. Len(index.entries) : index.entries[i] # 0

\* C29: write_index_page_map followed by read_index_page_map into a map of
\* the same geometry gives back last_update and the chapters_per_volume *
\* (index_pages_per_chapter - 1) entries; when the first 8 bytes read are not
\* the magic ALBIPM02, read_index_page_map fails and leaves last_update and
\* the entries of the map as they were.
C29_WriteThenRead ==
  pc = "read"
    => IF SubSeq(recent, 1, 8) = INDEX_PAGE_MAP_MAGIC
         THEN /\ result = "UDS_SUCCESS"
              /\ index.last_update = log[1].last_update
              /\ index.entries = log[1].entries
              /\ Len(index.entries)
                   = ChaptersPerVolume * (IndexPagesPerChapter - 1)
         ELSE /\ result # "UDS_SUCCESS"
              /\ index = log[2].target

\* A map with entries and a last_update was written, and read back into a
\* map that held other values.
C29_Witness ==
  /\ pc = "read"
  /\ result = "UDS_SUCCESS"
  /\ log[1].last_update = 2
  /\ log[1].entries = <<0, 1, 1, 2>>
  /\ log[2].target.last_update # 2

\* A saved map with a damaged magic was read.
C29_DamagedRead ==
  /\ pc = "read"
  /\ SubSeq(recent, 1, 8) # INDEX_PAGE_MAP_MAGIC
  /\ log[1].entries # log[2].target.entries

(***************************************************************************)
(* The layout handle across update_uds_layout.                             *)
(***************************************************************************)
\* The handle that update_uds_layout(layout, config, lvm blocks, offset
\* blocks) leaves behind.
HandleAfterUpdate(lvm, offset, io) ==
  update_uds_layout(layout, saves, ModelConfig, lvm * UDS_BLOCK_SIZE,
                    offset * UDS_BLOCK_SIZE, store, io).layout

\* C38: update_uds_layout(layout, config, lvm_offset, offset) leaves the
\* layout handle as it was before the call, whether or not the rewrite on
\* disk succeeds: the super block data, the sub-index and volume region
\* descriptors and total_blocks have their values of before the call.
C38_HandleAsBefore ==
  [][\A lvm \in 0 .. MaxOffset, offset \in 0 .. MaxOffset,
        io \in {"ok", "header_fail", "config_fail"} :
       ConvertLayout(lvm, offset, io)
         => HandleAfterUpdate(lvm, offset, io) = layout]_vars

\* What the call does put back: layout->super and layout->index.
C38_SuperAndIndexAsBefore ==
  [][\A lvm \in 0 .. MaxOffset, offset \in 0 .. MaxOffset,
        io \in {"ok", "header_fail", "config_fail"} :
       ConvertLayout(lvm, offset, io)
         => \E after \in {HandleAfterUpdate(lvm, offset, io)} :
              /\ after.super = layout.super
              /\ after.sub_index = layout.sub_index
              /\ after.volume = layout.volume
              /\ after.total_blocks = layout.total_blocks - offset]_vars

\* update_uds_layout returned from a conversion by one block or more.
C38_Witness ==
  /\ pc \in {"converted", "failed"}
  /\ Len(log) = 2
  /\ log[2].offset > 0

(***************************************************************************)
(* make_uds_index_layout on stores of several sizes, with config->size and *)
(* config->offset given.                                                   *)
(***************************************************************************)
\* The bytes the layout of ModelConfig needs.
TotalSize == compute_sizes(ModelConfig).sls.total_size

\* Stores from one block short of the layout to MaxOffset blocks more, a
\* whole number of blocks or one byte over.
StoreSizes ==
  {TotalSize + k * UDS_BLOCK_SIZE + d : k \in -1 .. MaxOffset, d \in {0, 1}}

\* config->size: not given, or from one block short of the layout on.
ConfigSizes ==
  {0} \cup {TotalSize + k * UDS_BLOCK_SIZE : k \in -1 .. MaxOffset}

\* log[1] holds the configuration make_uds_index_layout is called with.
InitFit ==
  /\ \E size \in StoreSizes, csize \in ConfigSizes, offset \in 0 .. MaxOffset :
       /\ store = EmptyStore(size)
       /\ log = <<[op |-> "config",
                   config |-> [ModelConfig EXCEPT
                                 !.size = csize,
                                 !.offset = offset * UDS_BLOCK_SIZE]]>>
  /\ hdr = [s \in Slots |-> NoBlock]
  /\ layout = ZeroLayout
  /\ saves = allocate_single_file_parts
  /\ fresh = [b \in 0 .. (TotalBlocks - 1) |-> 0]
  /\ index = CallerIndex
  /\ pc = "closed"
  /\ save_slot = NoSlot
  /\ zone = 0
  /\ result = "UDS_SUCCESS"
  /\ preLatest = NoSlot
  /\ crashedAt = "none"
  /\ lastClock = 0
  /\ recent = <<>>

\* make_uds_index_layout(config, true, &layout) with the configuration of
\* log[1].
CreateFit ==
  /\ pc = "closed"
  /\ Len(log) = 1
  /\ \E r \in {make_uds_index_layout(log[1].config, TRUE, store, hdr, "ok")} :
       /\ result' = r.result
       /\ layout' = r.layout
       /\ saves' = r.slots
       /\ store' = r.store
       /\ hdr' = r.disk
       /\ pc' = IF r.result = "UDS_SUCCESS" THEN "open" ELSE "failed"
       /\ log' = Append(log, [op |-> "create", result |-> r.result])
  /\ UNCHANGED <<fresh, index, save_slot, zone, preLatest, crashedAt,
                 lastClock, recent>>

NextFit == CreateFit

SpecFit == InitFit /\ [][NextFit]_vars

\* get_uds_writable_size(factory) & -UDS_BLOCK_SIZE
WritableSize == (store.size \div UDS_BLOCK_SIZE) * UDS_BLOCK_SIZE

\* The layout, from config->offset on, lies within the writable store.
LayoutFits == log[1].config.offset + TotalSize <= WritableSize

\* C39: make_uds_index_layout succeeds only if the whole layout fits in the
\* usable backing store, config.offset + total_size <= the writable size
\* rounded down to a multiple of the block size, for every config.size
\* (0 too) and config.offset; otherwise it fails with -ENOSPC.
C39_SucceedsOnlyIfFits ==
  Len(log) = 2
    => /\ log[2].result = "UDS_SUCCESS" => LayoutFits
       /\ ~LayoutFits => log[2].result = "-ENOSPC"

\* What holds: with config->size given, the layout fits whenever the call
\* succeeds; with config->size 0, config->offset and the layout each fit
\* when it succeeds, but not both together; and every failure is -ENOSPC.
C39_SucceedsOnlyIfEachFits ==
  Len(log) = 2
    => /\ (log[2].result = "UDS_SUCCESS" /\ log[1].config.size > 0)
            => /\ LayoutFits
               /\ TotalSize <= log[1].config.size
       /\ (log[2].result = "UDS_SUCCESS" /\ log[1].config.size = 0)
            => /\ TotalSize <= WritableSize
               /\ log[1].config.offset <= WritableSize
       /\ log[2].result \in {"UDS_SUCCESS", "-ENOSPC"}

\* A layout was made at an offset with config->size 0.
C39_Witness ==
  /\ Len(log) = 2
  /\ log[1].config.size = 0
  /\ log[1].config.offset > 0
  /\ log[2].result = "UDS_SUCCESS"

(***************************************************************************)
(* The slot the next save takes and the slot a load reads.                 *)
(***************************************************************************)
\* C37: with max_saves >= 2, whenever at least one slot passes
\* validate_index_save_layout, the slot select_oldest_index_save_layout
\* returns (the one the next save invalidates) is not the slot
\* select_latest_index_save_layout returns, whatever timestamps the valid
\* slots carry, equal ones included.
C37_OldestIsNotLatest ==
  (layout.super.max_saves >= 2 /\ \E s \in Slots : Valid(saves[s]))
    => Oldest(saves) # Latest(saves)

\* What holds: the two differ when no two valid slots carry the same
\* timestamp.
C37_OldestIsNotLatestWhenDistinct ==
  (/\ layout.super.max_saves >= 2
   /\ \E s \in Slots : Valid(saves[s])
   /\ \A s, t \in Slots :
        (s # t /\ Valid(saves[s]) /\ Valid(saves[t]))
          => saves[s].save_data.timestamp # saves[t].save_data.timestamp)
    => Oldest(saves) # Latest(saves)

\* Both slots are valid and carry the same timestamp, and the slot to
\* overwrite was selected.
C37_Witness ==
  /\ pc = "oldest"
  /\ \A s \in Slots : Valid(saves[s])
  /\ saves[0].save_data.timestamp = saves[1].save_data.timestamp
  /\ saves[0].save_data.timestamp > 0

(***************************************************************************)
(* The page a lookup gives and the bounds of that page.                    *)
(***************************************************************************)
\* The bounds get_list_number_bounds gives for the page the lookup of
\* log[1] found.
BoundsOfPageFound == get_list_number_bounds(index, log[1].chap, log[1].page)

\* C40: for every content of the page map (entries need not increase),
\* every chapter below chapters_per_volume and every delta list d below
\* delta_lists_per_chapter: if find_index_page_number maps d to page p of
\* the chapter, get_list_number_bounds(map, chapter, p) gives
\* lowest_list <= d <= highest_list.
C40_FoundPageHoldsList ==
  (pc = "asked" /\ log[1].op = "find" /\ log[1].chap < ChaptersPerVolume)
    => \E d \in {hash_to_chapter_delta_list(log[1].name, Geometry)} :
         /\ result = "UDS_SUCCESS"
         /\ BoundsOfPageFound.result = "UDS_SUCCESS"
         /\ BoundsOfPageFound.lowest_list <= d
         /\ d <= BoundsOfPageFound.highest_list

\* A list was looked up in chapter 1 of a map whose entries for that chapter
\* decrease, and was found on the last page.
C40_Witness ==
  /\ pc = "asked"
  /\ log[1].op = "find"
  /\ log[1].chap = 1
  /\ log[1].page = IndexPagesPerChapter - 1
  /\ StoredEntry(index, 1, 0) > StoredEntry(index, 1, 1)

(***************************************************************************)
(* Where the readers and writers of a converted layout are opened.         *)
(***************************************************************************)
\* open_layout_reader and open_layout_writer: the block of the device at
\* which the reader or writer of region lr begins.
open_layout_reader(lr, offset) == lr.start_block + offset

open_layout_writer(lr, offset) == lr.start_block + offset

\* open_uds_index_buffered_writer with the writer opened at the region's
\* start_block + (volume_offset - start_offset).
buffered_writer_at_volume_offset(ly, slots, slot, kind, z) ==
  LET f == find_layout_region(slots[slot], kind, z)
  IN  [result |-> f.result, lr |-> f.lr,
       block |-> IF f.result = "UDS_SUCCESS"
                   THEN open_layout_writer(
                          f.lr, ly.super.volume_offset - ly.super.start_offset)
                   ELSE 0]

\* open_uds_index_buffered_reader
open_uds_index_buffered_reader(ly, slots, slot, kind, z) ==
  LET f == find_layout_region(slots[slot], kind, z)
  IN  [result |-> f.result, lr |-> f.lr,
       block |-> IF f.result = "UDS_SUCCESS"
                   THEN open_layout_reader(f.lr, 0 - ly.super.start_offset)
                   ELSE 0]

\* open_uds_index_buffered_writer
open_uds_index_buffered_writer(ly, slots, slot, kind, z) ==
  LET f == find_layout_region(slots[slot], kind, z)
  IN  [result |-> f.result, lr |-> f.lr,
       block |-> IF f.result = "UDS_SUCCESS"
                   THEN open_layout_writer(f.lr, 0 - ly.super.start_offset)
                   ELSE 0]

\* open_uds_volume_bufio: the block at which the volume's client begins.
open_uds_volume_bufio(ly) ==
  ly.volume.start_block + ly.super.volume_offset - ly.super.start_offset

\* The reader verify_uds_index_config opens on the configuration.
ConfigReader(ly) ==
  open_layout_reader(ly.config,
                     ly.super.volume_offset - ly.super.start_offset)

\* The reader load_sub_index_regions opens on a slot, and the writer
\* write_index_save_layout opens on its header.
SlotReader(ly, isl) ==
  open_layout_reader(isl.index_save, 0 - ly.super.start_offset)

HeaderWriter(ly, isl) ==
  open_layout_writer(isl.header, 0 - ly.super.start_offset)

SubRegionKinds == {"INDEX_PAGE_MAP", "OPEN_CHAPTER", "VOLUME_INDEX"}

\* A reader or writer is opened on a region of the open layout; recent
\* tells on which region, of which slot, and at which block of the device.
Issue(op, slot, lr, block) ==
  /\ pc \in {"idle", "saved", "loaded"}
  /\ pc' = "issued"
  /\ recent' = <<[op |-> op, slot |-> slot, region |-> lr, block |-> block]>>
  /\ UNCHANGED <<store, layout, saves, hdr, fresh, index, save_slot, zone,
                 result, log, preLatest, crashedAt, lastClock>>

OpenConfigReader == Issue("config", NoSlot, layout.config, ConfigReader(layout))

OpenVolume == Issue("volume", NoSlot, layout.volume, open_uds_volume_bufio(layout))

OpenSlotReader(s) ==
  Issue("slot", s, saves[s].index_save, SlotReader(layout, saves[s]))

OpenHeaderWriter(s) ==
  Issue("header", s, saves[s].header, HeaderWriter(layout, saves[s]))

OpenBufferedReader(s, kind, z) ==
  \E r \in {open_uds_index_buffered_reader(layout, saves, s, kind, z)} :
    /\ r.result = "UDS_SUCCESS"
    /\ Issue("reader", s, r.lr, r.block)

OpenBufferedWriter(s, kind, z) ==
  \E w \in {open_uds_index_buffered_writer(layout, saves, s, kind, z)} :
    /\ w.result = "UDS_SUCCESS"
    /\ Issue("writer", s, w.lr, w.block)

NextIssue ==
  \/ NextConvert
  \/ OpenConfigReader
  \/ OpenVolume
  \/ \E s \in Slots : OpenSlotReader(s)
  \/ \E s \in Slots : OpenHeaderWriter(s)
  \/ \E s \in Slots, kind \in SubRegionKinds, z \in 0 .. (MaxZones - 1) :
       OpenBufferedReader(s, kind, z)
  \/ \E s \in Slots, kind \in SubRegionKinds, z \in 0 .. (MaxZones - 1) :
       OpenBufferedWriter(s, kind, z)

SpecIssue == InitConvert /\ [][NextIssue]_vars

\* The reader or writer of recent was opened on a version 7 layout.
IssuedConverted == pc = "issued" /\ layout.super.version = 7

\* The translation of the claim.
Translated(lr) ==
  lr.start_block + (layout.super.volume_offset - layout.super.start_offset)

\* The block of the disk where a region lies after update_uds_layout by
\* log[2].offset blocks: the header, the configuration and the volume lie
\* that many blocks further on than before, the save slots where they were.
DiskBlockOf(op, slot, lr) ==
  IF op = "config" THEN log[2].offset + 1
  ELSE IF op = "volume" THEN log[2].offset + SubIndexStart
  ELSE SlotStart(slot) + (lr.start_block - saves[slot].index_save.start_block)

\* C31: in a converted (version 7) layout every read and write of a region,
\* the configuration, the volume, a save slot header or a save slot
\* sub-region, is issued at block
\* region.start_block + (volume_offset - start_offset).
C31_IssuedTranslated ==
  IssuedConverted => recent[1].block = Translated(recent[1].region)

\* What holds: the configuration and the volume are read and written at
\* start_block + (volume_offset - start_offset); a save slot, its header and
\* its sub-regions at start_block - start_offset; and each of these is the
\* block of the device where the region lies on the disk.
C31_IssuedWhereRegionLies ==
  IssuedConverted
    => /\ recent[1].op \in {"config", "volume"}
            => recent[1].block = Translated(recent[1].region)
       /\ recent[1].op \in {"slot", "header", "reader", "writer"}
            => recent[1].block
                 = recent[1].region.start_block - layout.super.start_offset
       /\ DiskBlock(store, recent[1].block)
            = DiskBlockOf(recent[1].op, recent[1].slot, recent[1].region)

\* A writer was opened on the second volume index zone of a slot saved in a
\* layout converted with a volume offset above the start offset.
C31_Witness ==
  /\ IssuedConverted
  /\ layout.super.volume_offset > layout.super.start_offset
  /\ layout.super.start_offset > 0
  /\ recent[1].op = "writer"
  /\ recent[1].region.kind = "VOLUME_INDEX"
  /\ recent[1].region.instance = 1
  /\ Len(log) >= 4

(***************************************************************************)
(* save_index_state step by step on created and on converted layouts: what *)
(* one save writes and what it leaves alone.                               *)
(***************************************************************************)
\* The layout make_uds_index_layout(config, false) opens after
\* update_uds_layout(layout, config, 0, offset blocks) on the created store.
ConvertedOpen(cr, offset) ==
  make_uds_index_layout(
    [ModelConfig EXCEPT !.offset = offset * UDS_BLOCK_SIZE], FALSE,
    update_uds_layout(cr.layout, cr.slots, ModelConfig, 0,
                      offset * UDS_BLOCK_SIZE, cr.store, "ok").store,
    cr.disk, "ok")

\* The layout is the created one (version 3) or a converted one (version 7,
\* volume_offset 0..MaxOffset), and is open with no save in progress.  The
\* conversion takes its blocks from the volume, which has that many:
\* volume.num_blocks -= offset_blocks does not pass below zero.
InitFrame ==
  /\ \E cr \in {Created}, version \in {3, 7}, offset \in 0 .. MaxOffset :
       /\ version = 3 => offset = 0
       /\ offset <= cr.layout.volume.num_blocks
       /\ \E r \in {IF version = 3 THEN cr ELSE ConvertedOpen(cr, offset)} :
            /\ r.result = "UDS_SUCCESS"
            /\ store = r.store
            /\ layout = r.layout
            /\ saves = r.slots
            /\ hdr = r.disk
  /\ fresh = [b \in 0 .. (TotalBlocks - 1) |-> 0]
  /\ index \in [newest_virtual_chapter : {0}, oldest_virtual_chapter : {0},
                last_save : {0}, zone_count : 1 .. MaxZones]
  /\ pc = "idle"
  /\ save_slot = NoSlot
  /\ zone = 0
  /\ result = "UDS_SUCCESS"
  /\ log = <<>>
  /\ preLatest = NoSlot
  /\ crashedAt = "none"
  /\ lastClock = 0
  /\ recent = <<>>

\* The steps of save_index_state.
NextFrame ==
  \/ \E k \in 0 .. MaxCounter : SaveSelect(k)
  \/ \E io \in {"ok", "open_fail", "write_fail_lost", "write_fail_landed"} :
       SaveInvalidate(io)
  \/ Instantiate
  \/ \E io \in {"ok", "open_fail", "write_fail"} : SaveOpenChapter(io)
  \/ \E ok \in BOOLEAN : SaveOpenZoneWriters(ok)
  \/ \E io \in {"ok", "write_fail"} : SaveVolumeIndexZone(io)
  \/ \E io \in {"ok", "open_fail", "write_fail"} : SavePageMap(io)
  \/ \E io \in {"ok", "open_fail", "write_fail_lost", "write_fail_landed"} :
       SaveCommit(io)

SpecFrame == InitFrame /\ [][NextFrame]_vars

\* The blocks of the device a region takes when its readers and writers are
\* opened with offset.
BlocksAt(lr, offset) ==
  (lr.start_block + offset) .. (lr.start_block + offset + lr.num_blocks - 1)

\* The blocks of a save slot and of each region of it that a save writes.
SlotRange(s) == BlocksAt(saves[s].index_save, 0 - layout.super.start_offset)

WrittenRegions(isl) ==
  {isl.header, isl.index_page_map}
    \cup {isl.volume_index_zones[z] : z \in DOMAIN isl.volume_index_zones}
    \cup {isl.open_chapter[j] : j \in DOMAIN isl.open_chapter}

\* The blocks of the header, the configuration, the volume and the seal.
FixedRanges ==
  LET shift == layout.super.volume_offset - layout.super.start_offset
  IN  {BlocksAt(layout.header, shift), BlocksAt(layout.config, shift),
       BlocksAt(layout.volume, shift),
       BlocksAt(layout.seal, 0 - layout.super.start_offset)}

\* The save slots lie apart from each other and from the header, the
\* configuration, the volume and the seal, and each takes the blocks of the
\* disk it was created on.
SlotsApart ==
  /\ \A s, t \in Slots : s # t => SlotRange(s) \cap SlotRange(t) = {}
  /\ \A s \in Slots : \A range \in FixedRanges : SlotRange(s) \cap range = {}
  /\ \A s \in Slots :
       {DiskBlock(store, b) : b \in SlotRange(s)} = SlotBlocks(s)

\* A step of a save in progress writes within the slot selected and leaves
\* the other slots, in memory and on the disk, as they are.
WithinSelectedSlot ==
  save_slot # NoSlot
    => /\ \A s \in Slots \ {save_slot} :
            /\ saves'[s] = saves[s]
            /\ hdr'[s] = hdr[s]
       /\ \A b \in DOMAIN fresh :
            fresh'[b] # fresh[b] => b \in SlotRange(save_slot)
       /\ \A lr \in WrittenRegions(saves'[save_slot]) :
            BlocksAt(lr, 0 - layout.super.start_offset)
              \subseteq SlotRange(save_slot)
       /\ \A j \in DOMAIN log' : log'[j].block \in SlotRange(save_slot)

MaxThreads == 3

Threads == 1 .. MaxThreads

ONCE_NOT_DONE == 0
ONCE_IN_PROGRESS == 1
ONCE_COMPLETE == 2

\* An exchange that gives back the value without storing the new one.
cmpxchg_without_store(value, old, new) == [old |-> value, value |-> value]

\* atomic_cmpxchg: the value found, and the value left.
atomic_cmpxchg(value, old, new) ==
  [old |-> value, value |-> IF value = old THEN new ELSE value]

OnceOthers ==
  <<store, layout, saves, hdr, fresh, save_slot, zone, result, log, preLatest,
    crashedAt, lastClock, recent>>

\* static atomic_t logger_once = ATOMIC_INIT(0); no thread has called yet.
InitOnce ==
  /\ index = [once |-> ONCE_NOT_DONE, started |-> 0, finished |-> 0]
  /\ pc = [t \in Threads |-> "idle"]
  /\ store = EmptyStore(0)
  /\ layout = ZeroLayout
  /\ saves = allocate_single_file_parts
  /\ hdr = [s \in Slots |-> NoBlock]
  /\ fresh = [b \in 0 .. (TotalBlocks - 1) |-> 0]
  /\ save_slot = NoSlot
  /\ zone = 0
  /\ result = "UDS_SUCCESS"
  /\ log = <<>>
  /\ preLatest = NoSlot
  /\ crashedAt = "none"
  /\ lastClock = 0
  /\ recent = <<>>

\* Thread t calls uds_perform_once(once, function).
CallOnce(t) ==
  /\ pc[t] = "idle"
  /\ pc' = [pc EXCEPT ![t] = "cmpxchg"]
  /\ UNCHANGED index
  /\ UNCHANGED OnceOthers

\* switch (atomic_cmpxchg(once, ONCE_NOT_DONE, ONCE_IN_PROGRESS))
ExchangeOnce(t) ==
  /\ pc[t] = "cmpxchg"
  /\ \E x \in {atomic_cmpxchg(index.once, ONCE_NOT_DONE, ONCE_IN_PROGRESS)} :
       /\ index' = [index EXCEPT !.once = x.value]
       /\ pc' = [pc EXCEPT ![t] =
                   IF x.old = ONCE_NOT_DONE THEN "function"
                   ELSE IF x.old = ONCE_IN_PROGRESS THEN "yield"
                   ELSE "returned"]
  /\ UNCHANGED OnceOthers

\* function() is entered, and returns.
EnterFunction(t) ==
  /\ pc[t] = "function"
  /\ pc' = [pc EXCEPT ![t] = "in_function"]
  /\ index' = [index EXCEPT !.started = @ + 1]
  /\ UNCHANGED OnceOthers

LeaveFunction(t) ==
  /\ pc[t] = "in_function"
  /\ pc' = [pc EXCEPT ![t] = "set_release"]
  /\ index' = [index EXCEPT !.finished = @ + 1]
  /\ UNCHANGED OnceOthers

\* atomic_set_release(once, ONCE_COMPLETE); return;
SetComplete(t) ==
  /\ pc[t] = "set_release"
  /\ pc' = [pc EXCEPT ![t] = "returned"]
  /\ index' = [index EXCEPT !.once = ONCE_COMPLETE]
  /\ UNCHANGED OnceOthers

\* sched_yield(); break; and round the loop again.
YieldOnce(t) ==
  /\ pc[t] = "yield"
  /\ pc' = [pc EXCEPT ![t] = "cmpxchg"]
  /\ UNCHANGED index
  /\ UNCHANGED OnceOthers

NextOnce ==
  \E t \in Threads :
    \/ CallOnce(t)
    \/ ExchangeOnce(t)
    \/ EnterFunction(t)
    \/ LeaveFunction(t)
    \/ SetComplete(t)
    \/ YieldOnce(t)

SpecOnce == InitOnce /\ [][NextOnce]_vars

\* C35: uds_perform_once(once, f) runs f exactly once for a given
\* once-variable however many threads call it concurrently, and no call
\* returns before that single execution of f has finished.
C35_OnceAndFinished ==
  /\ index.started <= 1
  /\ \A t \in Threads :
       pc[t] = "returned" => (index.started = 1 /\ index.finished = 1)

\* Every thread has called and returned.
C35_Witness ==
  /\ \A t \in Threads : pc[t] = "returned"
  /\ index.finished = 1

(***************************************************************************)
(* The flusher.  The struct flusher is kept in index, the vdo_flush        *)
(* structures in fresh, the logical zones in hdr, the number of flush bios *)
(* received in zone, the acknowledgements of vdo_complete_flushes in log,  *)
(* the bios sent on in recent, what vdo_finish_draining found in           *)
(* crashedAt, and the read-only mode of the vdo in result.  A callback     *)
(* runs to its end on its thread; the fields under flusher->lock change    *)
(* within the critical sections of vdo_launch_flush and release_flush.     *)
(***************************************************************************)
\* Flush bios received in a run, and logical zones of the vdo.
MaxBios == 3

LogicalZones == 2

\* The vdo_flush structures: 0 is the one vdo_make_flusher allocates as the
\* spare, and every flush bio can allocate one more.
FlushIds == 0 .. MaxBios

NoFlush == -1

FreeFlush == [stage |-> "free", bios |-> <<>>, flush_generation |-> 0]

\* The flusher and what surrounds it, as the callbacks read and change it.
World ==
  [fl |-> index, fs |-> fresh, acks |-> log, submitted |-> recent,
   drained |-> crashedAt, mode |-> result]

Becomes(w) ==
  /\ index' = w.fl
  /\ fresh' = w.fs
  /\ log' = w.acks
  /\ recent' = w.submitted
  /\ crashedAt' = w.drained
  /\ result' = w.mode

FlushOthers == <<store, layout, saves, pc, save_slot, preLatest, lastClock>>

\* The vdo_flush structures that are neither free nor the spare.
InFlight(fs) ==
  {f \in FlushIds : fs[f].stage \in {"launched", "notifiers", "pending",
                                     "completing"}}

has_waiters(queue) == queue # <<>>

\* enqueue_waiter: the waiter joins the end of the queue, or the call fails
\* and the queue is as it was.
enqueue_waiter(queue, waiter, ok) ==
  IF ok THEN [result |-> "VDO_SUCCESS", queue |-> Append(queue, waiter)]
        ELSE [result |-> "VDO_ASSERTION_FAILED", queue |-> queue]

\* vdo_enter_read_only_mode
vdo_enter_read_only_mode(w) == [w EXCEPT !.mode = "VDO_READ_ONLY"]

\* vdo_complete_flush: the flush is queued for vdo_complete_flush_callback on
\* a bio thread.
vdo_complete_flush(w, f) == [w EXCEPT !.fs[f].stage = "completing"]

\* check_for_drain_complete; vdo_finish_draining leaves the flusher
\* suspended, and drained tells what the queues held at that moment.
check_for_drain_complete(w) ==
  IF w.fl.state # "draining" \/ has_waiters(w.fl.pending_flushes) THEN w
  ELSE IF w.fl.waiting_flush_bios = <<>>
    THEN [w EXCEPT
            !.fl.state = "suspended",
            !.drained = <<[notifiers |-> w.fl.notifiers,
                           pending_flushes |-> w.fl.pending_flushes,
                           waiting_flush_bios |-> w.fl.waiting_flush_bios,
                           in_flight |-> InFlight(w.fs),
                           notification |-> w.fl.notification]>>]
  ELSE w

\* The loop of vdo_complete_flushes: acks records, for each flush taken off
\* pending_flushes, its generation and first_unacknowledged_generation.
RECURSIVE CompleteLoop(_, _)
CompleteLoop(w, oldest_active_generation) ==
  IF ~has_waiters(w.fl.pending_flushes) THEN check_for_drain_complete(w)
  ELSE LET flush == Head(w.fl.pending_flushes)
       IN  IF w.fs[flush].flush_generation >= oldest_active_generation THEN w
           ELSE CompleteLoop(
                  vdo_complete_flush(
                    [w EXCEPT
                       !.acks = Append(@,
                          [flush_generation |-> w.fs[flush].flush_generation,
                           first_unacknowledged_generation |->
                             w.fl.first_unacknowledged_generation]),
                       !.fl.pending_flushes = Tail(@),
                       !.fl.first_unacknowledged_generation = @ + 1],
                    flush),
                  oldest_active_generation)

\* The smallest oldest_active_generation of the logical zones.
OldestActive(zones) ==
  CHOOSE g \in {zones[z].oldest_active_generation : z \in DOMAIN zones} :
    \A z \in DOMAIN zones : g <= zones[z].oldest_active_generation

vdo_complete_flushes(w, zones) == CompleteLoop(w, OldestActive(zones))

\* notify_flush: the flusher's completion sets out for the first logical
\* zone.
notify_flush(w) ==
  [w EXCEPT
     !.fl.notify_generation = w.fs[Head(w.fl.notifiers)].flush_generation,
     !.fl.notification = "zone",
     !.fl.logical_zone_to_notify = 1]

\* flush_vdo
flush_vdo(w, flush, ok) ==
  IF w.fl.state # "normal"
    THEN vdo_complete_flush(vdo_enter_read_only_mode(w), flush)
  ELSE LET w1 == [w EXCEPT
                    !.fs[flush].flush_generation = w.fl.flush_generation,
                    !.fl.flush_generation = @ + 1]
           may_notify == ~has_waiters(w.fl.notifiers)
           e == enqueue_waiter(w.fl.notifiers, flush, ok)
       IN  IF e.result # "VDO_SUCCESS"
             THEN vdo_complete_flush(vdo_enter_read_only_mode(w1), flush)
           ELSE IF may_notify
             THEN notify_flush([w1 EXCEPT !.fl.notifiers = e.queue,
                                          !.fs[flush].stage = "notifiers"])
           ELSE [w1 EXCEPT !.fl.notifiers = e.queue,
                           !.fs[flush].stage = "notifiers"]

\* finish_notification
finish_notification(w, zones, ok) ==
  LET waiter == Head(w.fl.notifiers)
      w1 == [w EXCEPT !.fl.notifiers = Tail(@), !.fl.notification = "idle"]
      e == enqueue_waiter(w.fl.pending_flushes, waiter, ok)
  IN  IF e.result # "VDO_SUCCESS"
        THEN vdo_complete_flush(vdo_enter_read_only_mode(w1), waiter)
      ELSE LET w2 == vdo_complete_flushes(
                       [w1 EXCEPT !.fl.pending_flushes = e.queue,
                                  !.fs[waiter].stage =
                                     IF @ = "notifiers" THEN "pending" ELSE @],
                       zones)
           IN  IF has_waiters(w2.fl.notifiers) THEN notify_flush(w2) ELSE w2

\* initialize_flush and launch_flush: the flush takes every bio of
\* waiting_flush_bios and is queued for flush_vdo on the flusher thread.
initialize_flush(w, flush) ==
  [w EXCEPT
     !.fs[flush] = [stage |-> "launched", bios |-> w.fl.waiting_flush_bios,
                    flush_generation |-> 0],
     !.fl.waiting_flush_bios = <<>>]

\* The critical section of vdo_launch_flush and the launch_flush after it:
\* allocated is the vdo_flush UDS_ALLOCATE_NOWAIT returned, NoFlush if none.
vdo_launch_flush(w, bio, allocated) ==
  LET w1 == [w EXCEPT !.fl.waiting_flush_bios = Append(@, bio)]
  IN  IF allocated = NoFlush
        THEN IF w1.fl.spare_flush = NoFlush THEN w1
             ELSE initialize_flush([w1 EXCEPT !.fl.spare_flush = NoFlush],
                                   w1.fl.spare_flush)
        ELSE initialize_flush(w1, allocated)

\* release_flush that frees the structure when nothing waits, whether or
\* not there is a spare.
release_without_spare(w, flush) ==
  IF w.fl.waiting_flush_bios = <<>>
    THEN [w EXCEPT !.fs[flush] = FreeFlush]
    ELSE initialize_flush(w, flush)

\* release_flush
release_flush(w, flush) ==
  IF w.fl.waiting_flush_bios = <<>>
    THEN IF w.fl.spare_flush = NoFlush
           THEN [w EXCEPT !.fs[flush] = [FreeFlush EXCEPT !.stage = "spare"],
                          !.fl.spare_flush = flush]
           ELSE [w EXCEPT !.fs[flush] = FreeFlush]
    ELSE initialize_flush(w, flush)

\* vdo_complete_flush_callback: the bios of the flush are sent on to the
\* backing device and the structure is released.
vdo_complete_flush_callback(w, flush) ==
  release_flush([w EXCEPT !.submitted = @ \o w.fs[flush].bios], flush)

\* vdo_drain_flusher: vdo_start_draining sets the state and calls
\* initiate_drain.
vdo_drain_flusher(w) ==
  check_for_drain_complete([w EXCEPT !.fl.state = "draining"])

\* vdo_make_flusher has run: normal operation, the spare allocated, nothing
\* queued; the zones have seen no flush.
InitFlush ==
  /\ index = [state |-> "normal", flush_generation |-> 0,
              first_unacknowledged_generation |-> 0, notifiers |-> <<>>,
              pending_flushes |-> <<>>, notify_generation |-> 0,
              logical_zone_to_notify |-> 0, notification |-> "idle",
              spare_flush |-> 0, waiting_flush_bios |-> <<>>]
  /\ fresh = [f \in FlushIds |->
                IF f = 0 THEN [FreeFlush EXCEPT !.stage = "spare"]
                         ELSE FreeFlush]
  /\ hdr = [z \in 1 .. LogicalZones |->
              [flush_generation |-> 0, oldest_active_generation |-> 0]]
  /\ zone = 0
  /\ log = <<>>
  /\ recent = <<>>
  /\ crashedAt = <<>>
  /\ result = "VDO_SUCCESS"
  /\ store = EmptyStore(0)
  /\ layout = ZeroLayout
  /\ saves = allocate_single_file_parts
  /\ pc = "idle"
  /\ save_slot = NoSlot
  /\ preLatest = NoSlot
  /\ lastClock = 0

\* A thread calls vdo_launch_flush with a new flush bio; the allocation of
\* a vdo_flush succeeds (the lowest free structure) or fails.
LaunchFlush(alloc_ok) ==
  /\ zone < MaxBios
  /\ index.state # "suspended"
  /\ zone' = zone + 1
  /\ \E free \in {{f \in FlushIds : fresh[f].stage = "free"}} :
       /\ alloc_ok => free # {}
       /\ Becomes(vdo_launch_flush(
                    World, zone + 1,
                    IF alloc_ok
                      THEN CHOOSE f \in free : \A g \in free : f <= g
                      ELSE NoFlush))
  /\ UNCHANGED hdr
  /\ UNCHANGED FlushOthers

\* The flusher thread runs flush_vdo for a flush that was launched.
FlushVdo(flush, ok) ==
  /\ fresh[flush].stage = "launched"
  /\ Becomes(flush_vdo(World, flush, ok))
  /\ UNCHANGED <<hdr, zone>>
  /\ UNCHANGED FlushOthers

\* increment_generation on the thread of the logical zone to notify.
IncrementGeneration ==
  /\ index.notification = "zone"
  /\ hdr' = [hdr EXCEPT ![index.logical_zone_to_notify].flush_generation = @ + 1]
  /\ index' = IF index.logical_zone_to_notify = LogicalZones
                THEN [index EXCEPT !.notification = "packer"]
                ELSE [index EXCEPT !.logical_zone_to_notify = @ + 1]
  /\ UNCHANGED <<fresh, log, recent, crashedAt, result, zone>>
  /\ UNCHANGED FlushOthers

\* flush_packer_callback on the flusher thread.
FlushPacker ==
  /\ index.notification = "packer"
  /\ index' = [index EXCEPT !.notification = "finish"]
  /\ UNCHANGED <<fresh, hdr, log, recent, crashedAt, result, zone>>
  /\ UNCHANGED FlushOthers

\* finish_notification on the flusher thread.
FinishNotification(ok) ==
  /\ index.notification = "finish"
  /\ Becomes(finish_notification(World, hdr, ok))
  /\ UNCHANGED <<hdr, zone>>
  /\ UNCHANGED FlushOthers

\* The data VIOs of a logical zone's older generations are done: its
\* oldest_active_generation moves up, to its flush_generation at most.
ZoneRelease(z, g) ==
  /\ g > hdr[z].oldest_active_generation
  /\ g <= hdr[z].flush_generation
  /\ hdr' = [hdr EXCEPT ![z].oldest_active_generation = g]
  /\ UNCHANGED <<index, fresh, log, recent, crashedAt, result, zone>>
  /\ UNCHANGED FlushOthers

\* vdo_complete_flushes on the flusher thread, as a logical zone asks for
\* when its oldest active generation has changed.
CompleteFlushes ==
  /\ has_waiters(index.pending_flushes)
  /\ \E w \in {vdo_complete_flushes(World, hdr)} :
       /\ w # World
       /\ Becomes(w)
  /\ UNCHANGED <<hdr, zone>>
  /\ UNCHANGED FlushOthers

\* vdo_complete_flush_callback on a bio thread.
CompleteFlushCallback(flush) ==
  /\ fresh[flush].stage = "completing"
  /\ Becomes(vdo_complete_flush_callback(World, flush))
  /\ UNCHANGED <<hdr, zone>>
  /\ UNCHANGED FlushOthers

\* vdo_drain_flusher on the flusher thread.
DrainFlusher ==
  /\ index.state = "normal"
  /\ Becomes(vdo_drain_flusher(World))
  /\ UNCHANGED <<hdr, zone>>
  /\ UNCHANGED FlushOthers

NextFlush ==
  \/ \E alloc_ok \in BOOLEAN : LaunchFlush(alloc_ok)
  \/ \E flush \in FlushIds, ok \in BOOLEAN : FlushVdo(flush, ok)
  \/ IncrementGeneration
  \/ FlushPacker
  \/ \E ok \in BOOLEAN : FinishNotification(ok)
  \/ \E z \in 1 .. LogicalZones, g \in 1 .. MaxBios : ZoneRelease(z, g)
  \/ CompleteFlushes
  \/ \E flush \in FlushIds : CompleteFlushCallback(flush)
  \/ DrainFlusher

SpecFlush == InitFlush /\ [][NextFlush]_vars

\* Where the flush bios received so far are: waiting, held by a vdo_flush in
\* flight, or sent on.
BioPlaces(b) ==
  Cardinality({i \in DOMAIN index.waiting_flush_bios :
                 index.waiting_flush_bios[i] = b})
  + Cardinality({p \in InFlight(fresh) \X (1 .. MaxBios) :
                   /\ p[2] \in DOMAIN fresh[p[1]].bios
                   /\ fresh[p[1]].bios[p[2]] = b})
  + Cardinality({i \in DOMAIN recent : recent[i] = b})

BiosKept ==
  /\ \A b \in 1 .. zone : BioPlaces(b) = 1
  /\ index.waiting_flush_bios # <<>> => index.spare_flush = NoFlush
  /\ index.spare_flush = NoFlush => InFlight(fresh) # {}
  /\ index.spare_flush # NoFlush => fresh[index.spare_flush].stage = "spare"

\* C33: a flush bio given to vdo_launch_flush is never lost.  Every bio
\* received is in exactly one place: on waiting_flush_bios, in a vdo_flush
\* in flight, or sent on; a bio waits only while there is no spare, no spare
\* means some vdo_flush is in flight, and a release_flush that finds bios
\* waiting takes them all and launches its vdo_flush again.
C33_BioNeverLost ==
  [][/\ BiosKept
     /\ BiosKept'
     /\ \A flush \in FlushIds :
          (CompleteFlushCallback(flush) /\ index.waiting_flush_bios # <<>>)
          => /\ index'.waiting_flush_bios = <<>>
             /\ fresh'[flush].stage = "launched"
             /\ fresh'[flush].bios = index.waiting_flush_bios]_vars

\* A bio waited because the allocation failed and the spare was in use, and
\* the release of the spare's flush has taken it and launched again.
C33_Witness ==
  /\ recent = <<1>>
  /\ index.spare_flush = NoFlush
  /\ fresh[0].stage = "launched"
  /\ fresh[0].bios = <<2>>
  /\ index.waiting_flush_bios = <<>>

\* C34: whenever vdo_complete_flushes takes a flush off pending_flushes, the
\* flush's generation is first_unacknowledged_generation, also after an
\* enqueue_waiter has failed.
C34_AcknowledgedInOrder ==
  \A i \in DOMAIN log :
    log[i].flush_generation = log[i].first_unacknowledged_generation

\* C36: when vdo_finish_draining is called, the notifiers queue, the
\* pending_flushes queue and waiting_flush_bios are all empty.
C36_DrainedWhenNothingInProgress ==
  \A i \in DOMAIN crashedAt :
    /\ crashedAt[i].notifiers = <<>>
    /\ crashedAt[i].pending_flushes = <<>>
    /\ crashedAt[i].waiting_flush_bios = <<>>

====
